---- MODULE Spec2Model ----
(***************************************************************************)
(* Model of the Atlas server watch bot:                                    *)
(*   src/awsdb/utils.py     ASWDConfig (the config store) and Utils        *)
(*   src/awsdb/commands.py  the commands and the watch loop of /start      *)
(*                                                                         *)
(* Text is modelled as a sequence of one-character strings, so that        *)
(* upper(), find(), strip(), format() and join() are computed and not      *)
(* assumed.                                                                *)
(***************************************************************************)
EXTENDS Integers, Sequences, FiniteSets, TLC

VARIABLES
    watch_world,                \* ASWDConfig.__watch_world
    watch_interval,             \* ASWDConfig.__watch_interval
    player_sbn_count,           \* ASWDConfig.__player_sbn_count (surge threshold)
    enemy_list,                 \* ASWDConfig.__enemy_list: ordered dict name -> company
    file,                       \* the persisted config file, as write() leaves it
    is_watch_started,           \* ASWDConfig.__is_watch_started
    last_servers_info,          \* ASWDConfig.__last_servers_info
    enemy_notice_server_names,  \* ASWDConfig.__enemy_notice_server_names (a list)
    channels,                   \* names of the guilds' text channels, in get_channels order
    pc,                         \* per /start task: the await it is suspended at
    loc,                        \* per /start task: the locals of StartCommand.execute_cmd
    ev,                         \* what the last step did (message sent, fetch made)
    op,                         \* the last call made on the config store
    stop_pending,               \* history: /stop ran while RUNNING, no /start came since
    hist,                       \* history: the last completed cycles of each task
    match                       \* the last enemy match computed (matcher specification)

cfgvars == <<watch_world, watch_interval, player_sbn_count, enemy_list, file>>
runvars == <<is_watch_started, last_servers_info, enemy_notice_server_names>>
taskvars == <<pc, loc>>
vars == <<watch_world, watch_interval, player_sbn_count, enemy_list, file,
          is_watch_started, last_servers_info, enemy_notice_server_names,
          channels, pc, loc, ev, op, stop_pending, hist, match>>

-----------------------------------------------------------------------------
(* Text *)

Text ==
    [ empty |-> <<>>,
      Bcd |-> <<"B", "c", "d">>,
      abcde |-> <<"a", "b", "c", "d", "e">>,
      xBCD |-> <<"x", "B", "C", "D">>,
      zed |-> <<"z", "e", "d">>,
      Acme |-> <<"A", "c", "m", "e">>,
      X |-> <<"X">>,
      Y |-> <<"Y">>,
      Y_padded |-> <<" ", "Y", " ">>,
      blank |-> <<" ">>,
      player_name |-> <<"p", "l", "a", "y", "e", "r", " ", "n", "a", "m", "e">>,
      company_name |-> <<"c", "o", "m", "p", "a", "n", "y", " ", "n", "a",
                         "m", "e">>,
      pct100 |-> <<"1", "0", "0", "%">>,
      Zed |-> <<"Z", "e", "d">> ]

LowerChars == <<"a", "b", "c", "d", "e", "f", "g", "h", "i", "j", "k", "l", "m",
                "n", "o", "p", "q", "r", "s", "t", "u", "v", "w", "x", "y", "z">>
UpperChars == <<"A", "B", "C", "D", "E", "F", "G", "H", "I", "J", "K", "L", "M",
                "N", "O", "P", "Q", "R", "S", "T", "U", "V", "W", "X", "Y", "Z">>

UpperChar(c) ==
    IF \E i \in 1..Len(LowerChars) : LowerChars[i] = c
    THEN UpperChars[CHOOSE i \in 1..Len(LowerChars) : LowerChars[i] = c]
    ELSE c

\* str.upper()
Upper(s) == [i \in 1..Len(s) |-> UpperChar(s[i])]

\* str.find(sub): the lowest 0-based index where sub occurs in s, else -1
Find(s, sub) ==
    LET hits == {i \in 0..(Len(s) - Len(sub)) : SubSeq(s, i + 1, i + Len(sub)) = sub}
    IN IF hits = {} THEN -1 ELSE CHOOSE i \in hits : \A j \in hits : i <= j

IsSpace(c) == c = " "

\* str.strip()
Strip(s) ==
    LET keep == {i \in 1..Len(s) : ~IsSpace(s[i])}
    IN IF keep = {} THEN <<>>
       ELSE SubSeq(s, CHOOSE i \in keep : \A j \in keep : i <= j,
                      CHOOSE i \in keep : \A j \in keep : j <= i)

\* "{}({})".format(a, b)
Format(a, b) == a \o <<"(">> \o b \o <<")">>

RECURSIVE Join(_, _)
\* sep.join(parts)
Join(sep, parts) ==
    IF parts = <<>> THEN <<>>
    ELSE IF Len(parts) = 1 THEN parts[1]
    ELSE parts[1] \o sep \o Join(sep, Tail(parts))

Digits == <<"0", "1", "2", "3", "4", "5", "6", "7", "8", "9">>

IsDigit(c) == \E i \in 1..10 : Digits[i] = c
DigitVal(c) == (CHOOSE i \in 1..10 : Digits[i] = c) - 1

\* str.isdecimal()
IsDecimal(s) == s # <<>> /\ \A i \in 1..Len(s) : IsDigit(s[i])

RECURSIVE NatOf(_)
NatOf(s) == IF s = <<>> THEN 0 ELSE NatOf(SubSeq(s, 1, Len(s) - 1)) * 10 + DigitVal(s[Len(s)])

\* int(s) succeeds on an optionally signed run of digits, blanks around it ignored
IntOk(s) ==
    LET u == Strip(s)
    IN \/ IsDecimal(u)
       \/ Len(u) > 1 /\ u[1] \in {"+", "-"} /\ IsDecimal(Tail(u))

\* int(s), where IntOk(s)
IntOf(s) ==
    LET u == Strip(s)
    IN IF u[1] = "-" THEN 0 - NatOf(Tail(u))
       ELSE IF u[1] = "+" THEN NatOf(Tail(u))
       ELSE NatOf(u)

RECURSIVE StrNat(_)
StrNat(n) == IF n < 10 THEN <<Digits[n + 1]>> ELSE StrNat(n \div 10) \o <<Digits[(n % 10) + 1]>>

\* str(n)
Str(n) == IF n < 0 THEN <<"-">> \o StrNat(0 - n) ELSE StrNat(n)

-----------------------------------------------------------------------------
(* ASWDConfig: the config store (utils.py) *)

\* `name in enemy_list`
HasEnemy(el, name) == \E i \in 1..Len(el) : el[i].name = name

\* enemy_list[name]
CompanyOf(el, name) == el[CHOOSE i \in 1..Len(el) : el[i].name = name].company

\* json.dumps of a string: quotes and backslashes are escaped
RECURSIVE JsonEsc(_)
JsonEsc(s) ==
    IF s = <<>> THEN <<>>
    ELSE (IF Head(s) \in {"\"", "\\"} THEN <<"\\", Head(s)>> ELSE <<Head(s)>>)
             \o JsonEsc(Tail(s))

JsonStr(s) == <<"\"">> \o JsonEsc(s) \o <<"\"">>

\* json.dumps(enemy_list): {"name": "company", ...}
json_dumps(el) ==
    <<"{">> \o Join(<<",", " ">>,
                    [i \in 1..Len(el) |->
                        JsonStr(el[i].name) \o <<":", " ">> \o JsonStr(el[i].company)])
           \o <<"}">>

\* ConfigParser.set refuses a value in which a % is left once every %% is taken out
RECURSIVE LonePercent(_)
LonePercent(s) ==
    IF s = <<>> THEN FALSE
    ELSE IF Head(s) # "%" THEN LonePercent(Tail(s))
    ELSE IF Len(s) >= 2 /\ s[2] = "%" THEN LonePercent(Tail(Tail(s)))
    ELSE TRUE

\* ASWDConfig.write: configw.set raises before the file is opened
write_raises(el) == LonePercent(json_dumps(el))

\* ASWDConfig.write: the whole section is rewritten from memory
write(ww, wi, psc, el) ==
    [watch_world |-> Str(ww), watch_interval |-> Str(wi),
     player_sbn_count |-> Str(psc), enemy_list |-> json_dumps(el)]

\* the value the watch_world setter stores
watch_world_set(v) == v

\* the value the watch_interval setter stores
watch_interval_set(v) == v

\* a setter that forgets its floor
player_sbn_count_set_raw(v) == v

\* the value the player_sbn_count setter stores
player_sbn_count_set(v) == IF v >= 3 THEN v ELSE 3

\* an add_enemy that never refuses
add_enemy_ret_always(el, name) == TRUE

\* add_enemy: its return value
add_enemy_ret(el, name) == ~HasEnemy(el, name)

\* add_enemy keeping the company text as given
add_enemy_list_untrimmed(el, name, company) ==
    IF HasEnemy(el, name) THEN el
    ELSE Append(el, [name |-> name, company |-> company])

\* add_enemy: the enemy list it leaves
add_enemy_list(el, name, company) ==
    IF HasEnemy(el, name) THEN el
    ELSE Append(el, [name |-> name,
                     company |-> IF company # <<>> THEN Strip(company) ELSE <<>>])

\* a del_enemy that never refuses
del_enemy_ret_always(el, name) == TRUE

\* del_enemy: its return value
del_enemy_ret(el, name) == HasEnemy(el, name)

\* del_enemy: the enemy list it leaves
del_enemy_list(el, name) ==
    IF HasEnemy(el, name)
    THEN LET k == CHOOSE i \in 1..Len(el) : el[i].name = name
         IN SubSeq(el, 1, k - 1) \o SubSeq(el, k + 1, Len(el))
    ELSE el

\* list_enemy
list_enemy(el) ==
    Join(<<",", " ">>, [i \in 1..Len(el) |-> Format(el[i].name, el[i].company)])

-----------------------------------------------------------------------------
(* Utils (utils.py) and the game server table *)

N_A1 == <<"A", "1">>
N_B2 == <<"B", "2">>

\* consts.SERVER_NAMES: the entries of the 225-entry table the model uses
SERVER_NAMES == <<[name |-> N_A1, id |-> 1], [name |-> N_B2, id |-> 17]>>

\* Utils.exists_server_name
exists_server_name(server_name) ==
    \E i \in 1..Len(SERVER_NAMES) : SERVER_NAMES[i].name = server_name

\* Utils.get_server_id raises ValueError on these
get_server_id_raises(cluster_id, server_name) ==
    cluster_id < 1 \/ 4 < cluster_id \/ ~exists_server_name(server_name)

\* Utils.get_server_id, where it does not raise
get_server_id(cluster_id, server_name) ==
    (cluster_id - 1) * 225
        + SERVER_NAMES[CHOOSE i \in 1..Len(SERVER_NAMES) :
                           SERVER_NAMES[i].name = server_name].id

\* Utils.get_channels: the reporting channels, as indices into the channel list
get_channels(chs) ==
    SelectSeq([i \in 1..Len(chs) |-> i], LAMBDA i : exists_server_name(Upper(chs[i])))

\* Utils.get_watch_server_names: list(set(...)) of the upper-cased reporting channel names
get_watch_server_names(chs) ==
    {Upper(chs[i]) : i \in {j \in 1..Len(chs) : exists_server_name(Upper(chs[j]))}}

\* the orders in which list(set(...)) may enumerate a set
Orders(S) ==
    {q \in [1..Cardinality(S) -> S] : \A x \in S : \E i \in 1..Cardinality(S) : q[i] = x}

EmptyMap == [x \in {} |-> 0]

\* `x in list`
InList(x, l) == \E i \in 1..Len(l) : l[i] = x

\* list.remove(x), where x is in the list: the first occurrence goes
RemoveFirst(l, x) ==
    LET k == CHOOSE i \in 1..Len(l) : l[i] = x /\ \A j \in 1..(i - 1) : l[j] # x
    IN SubSeq(l, 1, k - 1) \o SubSeq(l, k + 1, Len(l))

-----------------------------------------------------------------------------
(* The snapshot of one server: commands.py 357-381 *)

\* a test that tells upper case from lower case
IsEnemyCased(player_name, enemy) ==
    player_name # <<>> /\ Find(player_name, enemy) # -1

\* 372: the negation of the condition that skips the player
IsEnemy(player_name, enemy) ==
    player_name # <<>> /\ Find(Upper(player_name), Upper(enemy)) # -1

RECURSIVE MatchPlayers(_, _, _)
\* the inner loop over the fetched players, for one watch-list entry
MatchPlayers(enemy, company, players) ==
    IF players = <<>> THEN <<>>
    ELSE LET player_name == Head(players)
             rest == MatchPlayers(enemy, company, Tail(players))
         IN IF ~IsEnemy(player_name, enemy)
            THEN rest
            ELSE <<Format(player_name, company)>> \o rest

RECURSIVE EnemyPlayersOnce(_, _, _)
\* a matcher that lists a match string once
EnemyPlayersOnce(el, k, players) ==
    IF k > Len(el) THEN <<>>
    ELSE LET m == MatchPlayers(el[k].name, CompanyOf(el, el[k].name), players)
             rest == EnemyPlayersOnce(el, k + 1, players)
         IN m \o SelectSeq(rest, LAMBDA x : ~InList(x, m))

RECURSIVE EnemyPlayers(_, _, _)
\* the outer loop over the watch list el[k..]
EnemyPlayers(el, k, players) ==
    IF k > Len(el) THEN <<>>
    ELSE MatchPlayers(el[k].name, CompanyOf(el, el[k].name), players)
             \o EnemyPlayers(el, k + 1, players)

\* a surge value that is the sentinel whenever there is no usable baseline
PlayerSbnCountSentinel(last, server_name, player_count) ==
    IF server_name \in DOMAIN last /\ 0 < last[server_name].player_count
    THEN player_count - last[server_name].player_count
    ELSE -1

\* player_sbn_count of a new snapshot
PlayerSbnCount(last, server_name, player_count) ==
    IF server_name \in DOMAIN last
    THEN IF 0 < last[server_name].player_count
         THEN player_count - last[server_name].player_count
         ELSE -1
    ELSE 0

\* servers_info[server_name]; server_id, the id the entry was fetched for, is
\* kept for the record: the dict of 376-381 has no such key
Snapshot(last, el, server_name, server_id, player_count, players) ==
    [server_name |-> server_name,
     server_id |-> server_id,
     player_count |-> player_count,
     player_sbn_count |-> PlayerSbnCount(last, server_name, player_count),
     enemy_players |-> EnemyPlayers(el, 1, players)]

-----------------------------------------------------------------------------
(* The watch loop of StartCommand.execute_cmd: commands.py 291-435.          *)
(* A task runs from one await to the next in one step.  pc names the await  *)
(* it is suspended at:                                                       *)
(*   start_send     293  the "watch started" message                         *)
(*   cl_empty_send  311  cluster json empty;   cl_err_send  319  fetch failed*)
(*   retry_sleep    312/320                                                  *)
(*   pl_empty_send  344  player json empty;    pl_err_send  352  fetch failed*)
(*   pl_sleep       345/353                                                  *)
(*   n_dataerr 391, n_status 405, n_surge 410, n_alert 416, n_clear 422      *)
(*   exc_send       432  the generic error message                           *)
(*   sleep          434                                                      *)

MaxTasks == 2
Tasks == 1..MaxTasks

\* the server whose cycles the history records
TrackedServer == N_A1

NoAcc == [on |-> FALSE, pre |-> FALSE, a |-> 0, c |-> 0]
NoRec == [on |-> FALSE, e |-> -1, a |-> 0, c |-> 0, pre |-> FALSE]

\* the locals of execute_cmd outside a cycle
LocIdle == [names |-> <<>>, payload |-> EmptyMap, info |-> EmptyMap, chans |-> <<>>,
            acc |-> NoAcc]

\* where a step leaves the task, the shared state, and what it sent
Res(pcv, l, last, notice, msg, ch, fetch, cyc, rec) ==
    [pc |-> pcv, loc |-> l, last |-> last, notice |-> notice,
     msg |-> msg, ch |-> ch, fetch |-> fetch, cyc |-> cyc, rec |-> rec]

\* 427-432: the outer except reports and goes on to the sleep of 434
ExcSend(last, notice, fetch) ==
    Res("exc_send", LocIdle, last, notice, "error_continuing", 0, fetch, "aborted", NoRec)

\* an exception that leaves execute_cmd: the task is gone
Died(last, notice) ==
    Res("idle", LocIdle, last, notice, "none", 0, FALSE, "died", NoRec)

CountAlert(l, name) ==
    IF l.acc.on /\ name = TrackedServer THEN [l EXCEPT !.acc.a = @ + 1] ELSE l
CountClear(l, name) ==
    IF l.acc.on /\ name = TrackedServer THEN [l EXCEPT !.acc.c = @ + 1] ELSE l

CycleRec(l) ==
    [on |-> l.acc.on,
     e |-> IF TrackedServer \in DOMAIN l.info
           THEN Len(l.info[TrackedServer].enemy_players) ELSE -1,
     a |-> l.acc.a, c |-> l.acc.c, pre |-> l.acc.pre]

\* a notification phase that tells every channel its data is missing
NotifyNextNoData(l, chs, last, notice, fetch) ==
    IF chs = <<>>
    THEN Res("sleep", LocIdle, l.info, notice, "none", 0, fetch, "completed", CycleRec(l))
    ELSE Res("n_dataerr", [l EXCEPT !.chans = chs], last, notice,
             "data_error", Head(chs), fetch, "none", NoRec)

\* 388-393, and 426 and 434 once the channels are done
NotifyNext(l, chs, last, notice, fetch) ==
    IF chs = <<>>
    THEN Res("sleep", LocIdle, l.info, notice, "none", 0, fetch, "completed", CycleRec(l))
    ELSE IF Upper(channels[Head(chs)]) \notin DOMAIN l.info
         THEN Res("n_dataerr", [l EXCEPT !.chans = chs], last, notice,
                  "data_error", Head(chs), fetch, "none", NoRec)
         ELSE Res("n_status", [l EXCEPT !.chans = chs], last, notice,
                  "status", Head(chs), fetch, "none", NoRec)

\* 419-423: the all-clear
AfterAlert(l, last, notice) ==
    LET name == Upper(channels[Head(l.chans)])
    IN IF Len(l.info[name].enemy_players) = 0 /\ InList(name, notice)
       THEN Res("n_clear", CountClear(l, name), last, notice,
                "all_clear", Head(l.chans), FALSE, "none", NoRec)
       ELSE NotifyNext(l, Tail(l.chans), last, notice, FALSE)

\* an intrusion check that alerts in every cycle with enemies
AfterSurgeLevel(l, last, notice) ==
    LET name == Upper(channels[Head(l.chans)])
    IN IF Len(l.info[name].enemy_players) > 0
       THEN Res("n_alert", CountAlert(l, name), last, notice,
                "intrusion", Head(l.chans), FALSE, "none", NoRec)
       ELSE AfterAlert(l, last, notice)

\* 412-417: the intrusion alert
AfterSurge(l, last, notice) ==
    LET name == Upper(channels[Head(l.chans)])
    IN IF Len(l.info[name].enemy_players) > 0 /\ ~InList(name, notice)
       THEN Res("n_alert", CountAlert(l, name), last, notice,
                "intrusion", Head(l.chans), FALSE, "none", NoRec)
       ELSE AfterAlert(l, last, notice)

\* 407-410: the surge alert
AfterStatus(l, last, notice) ==
    LET name == Upper(channels[Head(l.chans)])
    IN IF player_sbn_count <= l.info[name].player_sbn_count
       THEN Res("n_surge", l, last, notice, "surge", Head(l.chans), FALSE, "none", NoRec)
       ELSE AfterSurge(l, last, notice)

RECURSIVE ForLoop(_, _, _, _, _)
\* 328-381: the loop over the watched servers, then the notification phase
ForLoop(l, pls, last, notice, fetch) ==
    IF l.names = <<>>
    THEN \* the cluster list is not read again in this cycle
         NotifyNext([l EXCEPT !.payload = EmptyMap], get_channels(channels), last, notice,
                    fetch)
    ELSE LET server_name == Head(l.names)
             rest == [l EXCEPT !.names = Tail(l.names)]
         IN IF get_server_id_raises(watch_world, server_name)
            THEN ExcSend(last, notice, fetch)
            ELSE LET server_id == get_server_id(watch_world, server_name)
                 IN IF server_id \notin DOMAIN l.payload
                    THEN ForLoop(rest, pls, last, notice, fetch)
                    ELSE CASE pls[server_name].st = "empty" ->
                                Res("pl_empty_send", rest, last, notice,
                                    "player_empty", 0, fetch, "none", NoRec)
                           [] pls[server_name].st = "fail" ->
                                Res("pl_err_send", rest, last, notice,
                                    "player_failed", 0, fetch, "none", NoRec)
                           [] pls[server_name].st = "garbage" ->
                                ExcSend(last, notice, fetch)
                           [] OTHER ->
                                ForLoop([rest EXCEPT !.info =
                                            (server_name :>
                                                Snapshot(last, enemy_list, server_name,
                                                         server_id, l.payload[server_id],
                                                         pls[server_name].players))
                                            @@ l.info],
                                        pls, last, notice, fetch)

\* 300-326: the top of a cycle
BeginCycle(cl, pls, order, last, notice, on) ==
    CASE cl.st = "empty" ->
            Res("cl_empty_send", LocIdle, last, notice, "fetch_empty", 0, TRUE,
                "aborted", NoRec)
      [] cl.st = "fail" ->
            Res("cl_err_send", LocIdle, last, notice, "fetch_failed", 0, TRUE,
                "aborted", NoRec)
      [] cl.st = "garbage" -> ExcSend(last, notice, TRUE)
      [] OTHER ->
            ForLoop([LocIdle EXCEPT !.names = order, !.payload = cl.data,
                                    !.acc = [on |-> on,
                                             pre |-> InList(TrackedServer, notice),
                                             a |-> 0, c |-> 0]],
                    pls, last, notice, TRUE)

\* 298: the while condition, then the cycle or the return of 435
LoopHead(flag, cl, pls, order, last, notice, on) ==
    IF ~flag
    THEN Res("idle", LocIdle, last, notice, "none", 0, FALSE, "exit", NoRec)
    ELSE BeginCycle(cl, pls, order, last, notice, on)

-----------------------------------------------------------------------------
(* What the game server API and Discord may answer *)

ST_ok == "ok"

\* the cluster list of a world, as id -> player_count (-1: the server is not listed)
PayloadOf(world, a, b) ==
    (IF a >= 0 THEN ((world - 1) * 225 + 1) :> a ELSE EmptyMap)
        @@ (IF b >= 0 THEN ((world - 1) * 225 + 17) :> b ELSE EmptyMap)

\* what the cluster fetch may give: in.cl_bad the ways it fails, in.counts the player
\* counts each server may be listed with
ClusterResults(in, world) ==
    {[st |-> x, data |-> EmptyMap] : x \in in.cl_bad}
        \cup {[st |-> ST_ok, data |-> PayloadOf(world, a, b)] :
                  a \in in.counts[N_A1], b \in in.counts[N_B2]}

PlayerResultsOf(in, server_name) ==
    {[st |-> x, players |-> <<>>] : x \in in.pl_bad[server_name]}
        \cup {[st |-> ST_ok, players |-> p] : p \in in.lists[server_name]}

\* what the player fetches of one pass over the servers may give; an empty list
\* stands also for a body with a "data" key
PlayerResults(in) ==
    {(N_A1 :> a) @@ (N_B2 :> b) :
         a \in PlayerResultsOf(in, N_A1), b \in PlayerResultsOf(in, N_B2)}

\* the fetches a pass makes: the cluster list only when the loop goes on, the
\* player lists only when the cluster list came
ClusterResultsIf(flag, in, world) ==
    IF flag THEN ClusterResults(in, world) ELSE {[st |-> "none", data |-> EmptyMap]}

PlayerResultsAfter(in, cl) ==
    IF cl.st = ST_ok
    THEN PlayerResults(in)
    ELSE {(N_A1 :> [st |-> "none", players |-> <<>>])
              @@ (N_B2 :> [st |-> "none", players |-> <<>>])}

\* one server watched, every failure possible, enemies coming and going
InCtl ==
    [cl_bad |-> {"empty", "fail", "garbage"},
     counts |-> (N_A1 :> {-1, 2}) @@ (N_B2 :> {-1}),
     pl_bad |-> (N_A1 :> {"empty", "fail", "garbage"}) @@ (N_B2 :> {}),
     lists |-> (N_A1 :> {<<>>, <<Text.abcde, Text.xBCD>>}) @@ (N_B2 :> {<<Text.zed>>})]

\* player counts rising and falling, no enemies
InSurge ==
    [cl_bad |-> {"fail"},
     counts |-> (N_A1 :> {-1, 0, 2, 5}) @@ (N_B2 :> {-1, 2}),
     pl_bad |-> (N_A1 :> {"fail"}) @@ (N_B2 :> {}),
     lists |-> (N_A1 :> {<<Text.zed>>}) @@ (N_B2 :> {<<Text.zed>>})]

-----------------------------------------------------------------------------
(* History and step bookkeeping *)

EvNone == [who |-> "init", task |-> 0, msg |-> "none", ch |-> 0, fetch |-> FALSE,
           cyc |-> "none", usage |-> "", tokens |-> <<>>, n |-> 0]
OpNone == [name |-> "none", key |-> <<>>, company |-> <<>>, val |-> 0, ret |-> FALSE,
           before |-> <<>>, out |-> <<>>, wr |-> "none", wi_set |-> FALSE,
           psc_set |-> FALSE,
           prev |-> [name |-> "none", key |-> <<>>, ret |-> FALSE, before |-> <<>>]]
MatchNone == [el |-> <<>>, players |-> <<>>, out |-> <<>>]

Active(pcv) == {t \in Tasks : pcv[t] # "idle"}
Solo(pcv) == Cardinality(Active(pcv)) <= 1

Last3(w) == IF Len(w) > 3 THEN SubSeq(w, Len(w) - 2, Len(w)) ELSE w

\* the task, the shared run state and the histories after task t made step R
Apply(t, R, flag, sp) ==
    LET pcN == [pc EXCEPT ![t] = R.pc]
        solo == Solo(pc) /\ Solo(pcN)
    IN /\ pc' = pcN
       /\ loc' = [u \in Tasks |->
                     LET l == IF u = t THEN R.loc ELSE loc[u]
                     IN IF solo THEN l ELSE [l EXCEPT !.acc = NoAcc]]
       /\ hist' = [hist EXCEPT !.w =
                     [u \in Tasks |->
                         IF ~solo THEN <<>>
                         ELSE IF u # t THEN hist.w[u]
                         ELSE IF R.cyc = "none" THEN hist.w[t]
                         ELSE IF R.cyc = "completed" /\ R.rec.on
                              THEN Last3(Append(hist.w[t],
                                                [e |-> R.rec.e, a |-> R.rec.a,
                                                 c |-> R.rec.c, pre |-> R.rec.pre]))
                              ELSE <<>>]]
       /\ last_servers_info' = R.last
       /\ enemy_notice_server_names' = R.notice
       /\ is_watch_started' = flag
       /\ stop_pending' = sp
       /\ ev' = [who |-> "loop", task |-> t, msg |-> R.msg, ch |-> R.ch, fetch |-> R.fetch,
                 cyc |-> R.cyc, usage |-> "", tokens |-> <<>>,
                 n |-> IF R.msg = "none" THEN 0 ELSE 1]
       /\ UNCHANGED <<cfgvars, channels, op, match>>

-----------------------------------------------------------------------------
(* The steps of a /start task *)

\* a start that keeps the snapshot and the notice set of the run before
ResumeStartNoReset(t, in) ==
    /\ pc[t] = "start_send"
    /\ \E ok \in BOOLEAN :
         IF ok
         THEN \E cl \in ClusterResults(in, watch_world),
                 order \in Orders(get_watch_server_names(channels)) :
              \E pls \in PlayerResultsAfter(in, cl) :
                Apply(t, LoopHead(TRUE, cl, pls, order, last_servers_info,
                                  enemy_notice_server_names, hist.on), TRUE,
                      stop_pending)
         ELSE Apply(t, Died(last_servers_info, enemy_notice_server_names),
                    is_watch_started, stop_pending)

\* 293-298: the start message is out; the run state is reset and the loop entered
ResumeStart(t, in) ==
    /\ pc[t] = "start_send"
    /\ \E ok \in BOOLEAN :
         IF ok
         THEN \E cl \in ClusterResults(in, watch_world),
                 order \in Orders(get_watch_server_names(channels)) :
              \E pls \in PlayerResultsAfter(in, cl) :
                Apply(t, LoopHead(TRUE, cl, pls, order, EmptyMap, <<>>, hist.on), TRUE,
                      stop_pending)
         ELSE Apply(t, Died(last_servers_info, enemy_notice_server_names),
                    is_watch_started, stop_pending)

\* 312/320 -> continue, and 434: back to the while condition
ResumeSleep(t, in) ==
    /\ pc[t] \in {"sleep", "retry_sleep"}
    /\ \E cl \in ClusterResultsIf(is_watch_started, in, watch_world),
          order \in Orders(get_watch_server_names(channels)) :
       \E pls \in PlayerResultsAfter(in, cl) :
         Apply(t, LoopHead(is_watch_started, cl, pls, order, last_servers_info,
                           enemy_notice_server_names, hist.on),
               is_watch_started, stop_pending)

\* 345/353 -> continue: the for loop goes on with the next server
ResumePlSleep(t, in) ==
    /\ pc[t] = "pl_sleep"
    /\ \E pls \in PlayerResults(in) :
         Apply(t, ForLoop(loc[t], pls, last_servers_info, enemy_notice_server_names, FALSE),
               is_watch_started, stop_pending)

\* a retry that forgets the run state
RetrySleepClearing(last, notice) ==
    Res("retry_sleep", LocIdle, EmptyMap, <<>>, "none", 0, FALSE, "none", NoRec)

\* 312/320: the error message is out, the task sleeps the interval before `continue`
RetrySleep(last, notice) ==
    Res("retry_sleep", LocIdle, last, notice, "none", 0, FALSE, "none", NoRec)

\* what follows a send that went through
SendDone(pcv, l, last, notice) ==
    LET name == Upper(channels[Head(l.chans)])
    IN CASE pcv \in {"cl_empty_send", "cl_err_send"} -> RetrySleep(last, notice)
         [] pcv \in {"pl_empty_send", "pl_err_send"} ->
              Res("pl_sleep", l, last, notice, "none", 0, FALSE, "none", NoRec)
         [] pcv = "n_dataerr" -> NotifyNext(l, Tail(l.chans), last, notice, FALSE)
         [] pcv = "n_status" -> AfterStatus(l, last, notice)
         [] pcv = "n_surge" -> AfterSurge(l, last, notice)
         [] pcv = "n_alert" -> AfterAlert(l, last, Append(notice, name))
         [] pcv = "n_clear" ->
              IF InList(name, notice)
              THEN NotifyNext(l, Tail(l.chans), last, RemoveFirst(notice, name), FALSE)
              ELSE ExcSend(last, notice, FALSE)
         [] OTHER -> Res("sleep", LocIdle, last, notice, "none", 0, FALSE, "none", NoRec)

\* what follows a send that raised
SendRaised(pcv, l, last, notice) ==
    CASE pcv = "cl_empty_send" ->
           Res("cl_err_send", LocIdle, last, notice, "fetch_failed", 0, FALSE, "none", NoRec)
      [] pcv = "pl_empty_send" ->
           Res("pl_err_send", l, last, notice, "player_failed", 0, FALSE, "none", NoRec)
      [] pcv = "exc_send" -> Died(last, notice)
      [] OTHER -> ExcSend(last, notice, FALSE)

SendPcs == {"cl_empty_send", "cl_err_send", "pl_empty_send", "pl_err_send", "n_dataerr",
            "n_status", "n_surge", "n_alert", "n_clear", "exc_send"}

\* an awaited send_message returns or raises
ResumeSend(t) ==
    /\ pc[t] \in SendPcs
    /\ \E ok \in BOOLEAN :
         Apply(t, IF ok
                  THEN SendDone(pc[t], loc[t], last_servers_info, enemy_notice_server_names)
                  ELSE SendRaised(pc[t], loc[t], last_servers_info,
                                  enemy_notice_server_names),
               is_watch_started, stop_pending)

-----------------------------------------------------------------------------
(* The commands *)

\* a /start that never refuses
StartValidCustomNone(started) == FALSE

\* StartCommand.valid_custom: a message is returned
StartValidCustom(started) == started

\* Command.execute for /start, up to the await of 293
StartCommand ==
    IF StartValidCustom(is_watch_started)
    THEN /\ ev' = [who |-> "/start", task |-> 0, msg |-> "watch_continuing", ch |-> 0,
                   fetch |-> FALSE, cyc |-> "none", usage |-> "/start",
                   tokens |-> <<>>, n |-> 1]
         /\ stop_pending' = FALSE
         /\ UNCHANGED <<cfgvars, runvars, channels, taskvars, op, hist, match>>
    ELSE \E t \in Tasks :
           /\ pc[t] = "idle"
           /\ \A u \in Tasks : pc[u] = "idle" => t <= u
           /\ LET pcN == [pc EXCEPT ![t] = "start_send"]
              IN /\ pc' = pcN
                 /\ loc' = [u \in Tasks |->
                              IF Solo(pcN) THEN loc[u] ELSE [loc[u] EXCEPT !.acc = NoAcc]]
                 /\ hist' = [hist EXCEPT !.w = [u \in Tasks |-> <<>>]]
           /\ ev' = [who |-> "/start", task |-> t, msg |-> "watch_started", ch |-> 0,
                     fetch |-> FALSE, cyc |-> "none", usage |-> "",
                     tokens |-> <<>>, n |-> 1]
           /\ stop_pending' = FALSE
           /\ UNCHANGED <<cfgvars, runvars, channels, op, match>>

\* the flag StopCommand.execute_cmd leaves
StopFlag(started) == FALSE

\* StopCommand.execute_cmd
StopCommand ==
    /\ is_watch_started' = StopFlag(is_watch_started)
    /\ stop_pending' = (is_watch_started \/ stop_pending)
    /\ ev' = [who |-> "/stop", task |-> 0, msg |-> "watch_stopped", ch |-> 0, fetch |-> FALSE,
              cyc |-> "none", usage |-> "", tokens |-> <<>>, n |-> 1]
    /\ UNCHANGED <<cfgvars, last_servers_info, enemy_notice_server_names, channels,
                   taskvars, op, hist, match>>


\* a call on the config store: wr tells what write() did in it: "none" (not
\* called), "wrote" or "raised"; where the chain of calls is recorded the sticky
\* marks stay and prev is the call before
OpOf(name, key, company, val, ret, before, out, wr) ==
    [name |-> name, key |-> key, company |-> company, val |-> val, ret |-> ret,
     before |-> before, out |-> out, wr |-> wr,
     wi_set |-> (hist.chain /\ (op.wi_set \/ name = "watch_interval")),
     psc_set |-> (hist.chain /\ (op.psc_set \/ name = "player_sbn_count")),
     prev |-> IF hist.chain
              THEN [name |-> op.name, key |-> op.key, ret |-> op.ret, before |-> op.before]
              ELSE OpNone.prev]

\* what the write() that ends a store call does with the enemy list el in memory
WriteOutcome(el) == IF write_raises(el) THEN "raised" ELSE "wrote"

\* the config after a store call that ends in write(): memory is assigned first,
\* and the file is rewritten unless write() raises
Stored(ww, wi, psc, el) ==
    /\ watch_world' = ww
    /\ watch_interval' = wi
    /\ player_sbn_count' = psc
    /\ enemy_list' = el
    /\ file' = IF write_raises(el) THEN file ELSE write(ww, wi, psc, el)

\* what a command did: msg names the text of its last message ("raised" when it
\* ended in an exception instead, "none" when it sent nothing), usage the command
\* whose usage text ends that message, tokens what split_args made of the
\* arguments, n the number of messages it sent
CmdEvT(who, msg, usage, tokens, n) ==
    [who |-> who, task |-> 0, msg |-> msg, ch |-> 0, fetch |-> FALSE, cyc |-> "none",
     usage |-> usage, tokens |-> tokens, n |-> n]

\* a command that sent one message, or none when it raised first
CmdEvU(who, msg, usage) ==
    CmdEvT(who, msg, usage, <<>>, IF msg \in {"none", "raised"} THEN 0 ELSE 1)

CmdEv(who, msg) == CmdEvU(who, msg, "")

\* the setters and the enemy-list methods of ASWDConfig, as a caller runs them
CallSetWatchWorld(v) ==
    /\ Stored(watch_world_set(v), watch_interval, player_sbn_count, enemy_list)
    /\ op' = OpOf("watch_world", <<>>, <<>>, v, ~write_raises(enemy_list), <<>>, <<>>,
                  WriteOutcome(enemy_list))

CallSetWatchInterval(v) ==
    /\ Stored(watch_world, watch_interval_set(v), player_sbn_count, enemy_list)
    /\ op' = OpOf("watch_interval", <<>>, <<>>, v, ~write_raises(enemy_list), <<>>, <<>>,
                  WriteOutcome(enemy_list))

CallSetPlayerSbnCount(v) ==
    /\ Stored(watch_world, watch_interval, player_sbn_count_set(v), enemy_list)
    /\ op' = OpOf("player_sbn_count", <<>>, <<>>, v, ~write_raises(enemy_list), <<>>, <<>>,
                  WriteOutcome(enemy_list))

\* add_enemy writes only when it adds
CallAddEnemy(name, company) ==
    IF add_enemy_ret(enemy_list, name)
    THEN LET el == add_enemy_list(enemy_list, name, company)
         IN /\ Stored(watch_world, watch_interval, player_sbn_count, el)
            /\ op' = OpOf("add_enemy", name, company, 0, ~write_raises(el), enemy_list,
                          <<>>, WriteOutcome(el))
    ELSE /\ UNCHANGED cfgvars
         /\ op' = OpOf("add_enemy", name, company, 0, FALSE, enemy_list, <<>>, "none")

\* del_enemy writes only when it deletes
CallDelEnemy(name) ==
    IF del_enemy_ret(enemy_list, name)
    THEN LET el == del_enemy_list(enemy_list, name)
         IN /\ Stored(watch_world, watch_interval, player_sbn_count, el)
            /\ op' = OpOf("del_enemy", name, <<>>, 0, ~write_raises(el), enemy_list,
                          <<>>, WriteOutcome(el))
    ELSE /\ UNCHANGED cfgvars
         /\ op' = OpOf("del_enemy", name, <<>>, 0, FALSE, enemy_list, <<>>, "none")

CallListEnemy ==
    /\ op' = OpOf("list_enemy", <<>>, <<>>, 0, TRUE, enemy_list, list_enemy(enemy_list),
                  "none")
    /\ UNCHANGED cfgvars

\* SetWatchIntervalCommand.valid_custom and execute_cmd
SetWatchIntervalCommand(args) ==
    /\ UNCHANGED <<runvars, channels, taskvars, stop_pending, hist, match>>
    /\ IF ~IsDecimal(args)
       THEN /\ ev' = CmdEvU("/set interval", "not_a_number", "/set interval")
            /\ UNCHANGED <<cfgvars, op>>
       ELSE \E ok \in BOOLEAN :
              LET int_val == IF IntOf(args) < 30 THEN 30 ELSE IntOf(args)
              IN IF IntOf(args) < 30 /\ ~ok
                 THEN /\ ev' = CmdEvU("/set interval", "raised", "")
                      /\ UNCHANGED <<cfgvars, op>>
                 ELSE /\ CallSetWatchInterval(int_val)
                      /\ ev' = CmdEvT("/set interval",
                                      IF write_raises(enemy_list) THEN "raised" ELSE "set",
                                      "", <<>>,
                                      (IF IntOf(args) < 30 THEN 1 ELSE 0)
                                        + (IF write_raises(enemy_list) THEN 0 ELSE 1))

\* SetPlayerSbnCountCommand.valid_custom, which passes every nonempty argument,
\* and execute_cmd, where int(args) raises on what is no number
SetPlayerSbnCountCommand(args) ==
    /\ UNCHANGED <<runvars, channels, taskvars, stop_pending, hist, match>>
    /\ IF args = <<>>
       THEN /\ ev' = CmdEvU("/set player_count", "not_a_number", "/set player_count")
            /\ UNCHANGED <<cfgvars, op>>
       ELSE IF ~IntOk(args)
       THEN /\ ev' = CmdEvU("/set player_count", "raised", "")
            /\ UNCHANGED <<cfgvars, op>>
       ELSE \E ok \in BOOLEAN :
              LET int_val == IF IntOf(args) < 3 THEN 3 ELSE IntOf(args)
              IN IF IntOf(args) < 3 /\ ~ok
                 THEN /\ ev' = CmdEvU("/set player_count", "raised", "")
                      /\ UNCHANGED <<cfgvars, op>>
                 ELSE /\ CallSetPlayerSbnCount(int_val)
                      /\ ev' = CmdEvT("/set player_count",
                                      IF write_raises(enemy_list) THEN "raised" ELSE "set",
                                      "", <<>>,
                                      (IF IntOf(args) < 3 THEN 1 ELSE 0)
                                        + (IF write_raises(enemy_list) THEN 0 ELSE 1))

-----------------------------------------------------------------------------
(* The config store called directly *)

StoreFrame ==
    /\ ev' = CmdEv("store", "none")
    /\ UNCHANGED <<runvars, channels, taskvars, stop_pending, hist, match>>

StoreSetWatchWorld(v) == StoreFrame /\ CallSetWatchWorld(v)

StoreSetWatchInterval(v) == StoreFrame /\ CallSetWatchInterval(v)

StoreSetPlayerSbnCount(v) == StoreFrame /\ CallSetPlayerSbnCount(v)

StoreAddEnemy(name, company) == StoreFrame /\ CallAddEnemy(name, company)

StoreDelEnemy(name) == StoreFrame /\ CallDelEnemy(name)

StoreListEnemy == StoreFrame /\ CallListEnemy

-----------------------------------------------------------------------------
(* Commands: the enemy list, the servers, the world and the read-only ones *)

RECURSIVE SplitQuoted(_, _, _, _)
\* the character loop of split_args, taken when the argument holds a double quote:
\* ret and arg are the list and the token built so far
SplitQuoted(args, ret, arg, in_dq) ==
    IF args = <<>> THEN (IF arg # <<>> THEN Append(ret, Strip(arg)) ELSE ret)
    ELSE IF Head(args) = " " /\ ~in_dq
         THEN SplitQuoted(Tail(args), Append(ret, Strip(arg)), <<>>, in_dq)
    ELSE IF Head(args) = "\""
         THEN SplitQuoted(Tail(args), ret, arg, ~in_dq)
    ELSE SplitQuoted(Tail(args), ret, Append(arg, Head(args)), in_dq)

RECURSIVE SplitSpace(_)
\* str.split(" ")
SplitSpace(s) ==
    IF Find(s, <<" ">>) = -1 THEN <<s>>
    ELSE <<SubSeq(s, 1, Find(s, <<" ">>))>> \o SplitSpace(SubSeq(s, Find(s, <<" ">>) + 2, Len(s)))

\* AddEnemyCommand.split_args
split_args(args) ==
    IF Find(args, <<"\"">>) >= 0 THEN SplitQuoted(args, <<>>, <<>>, FALSE)
    ELSE SplitSpace(args)

\* AddEnemyCommand.valid_custom
AddEnemyValidCustom(args) == args = <<>>

\* AddEnemyCommand (and, as who says, AddBlackListCommand): valid_custom and
\* execute_cmd; the message is sent whatever add_enemy returned
AddEnemyCommand(who, args) ==
    /\ UNCHANGED <<runvars, channels, taskvars, stop_pending, hist, match>>
    /\ IF AddEnemyValidCustom(args)
       THEN /\ ev' = CmdEvU(who, "bad_player_name", who)
            /\ UNCHANGED <<cfgvars, op>>
       ELSE LET arg_list == split_args(args)
                pname == IF Len(arg_list) >= 1 THEN arg_list[1] ELSE <<>>
                cname == IF Len(arg_list) >= 2 THEN arg_list[2] ELSE <<>>
            IN /\ CallAddEnemy(pname, cname)
               /\ ev' = CmdEvT(who, IF op'.wr = "raised" THEN "raised" ELSE "enemy_added",
                               "", arg_list, IF op'.wr = "raised" THEN 0 ELSE 1)

\* DelEnemyCommand.valid_custom: the message it returns, "" for None
DelEnemyValidCustom(el, args) ==
    IF args = <<>> THEN "bad_player_name"
    ELSE IF ~HasEnemy(el, args) THEN "no_such_enemy"
    ELSE ""

\* DelEnemyCommand (and DelBlackListCommand): valid_custom and execute_cmd
DelEnemyCommand(who, args) ==
    /\ UNCHANGED <<runvars, channels, taskvars, stop_pending, hist, match>>
    /\ IF DelEnemyValidCustom(enemy_list, args) # ""
       THEN /\ ev' = CmdEvU(who, DelEnemyValidCustom(enemy_list, args), who)
            /\ UNCHANGED <<cfgvars, op>>
       ELSE /\ CallDelEnemy(args)
            /\ ev' = CmdEvU(who, IF op'.wr = "raised" THEN "raised" ELSE "enemy_deleted",
                            "")

\* ListEnemyCommand (and ListBlackListCommand).execute_cmd
ListEnemyCommand(who) ==
    /\ CallListEnemy
    /\ ev' = CmdEvU(who, "enemy_list", "")
    /\ UNCHANGED <<runvars, channels, taskvars, stop_pending, hist, match>>

\* Utils.exists_channel
exists_channel(chs, channel_name) ==
    \E i \in 1..Len(chs) : Upper(chs[i]) = Upper(channel_name)

\* AddServerCommand.valid_custom: the message it returns, "" for None
AddServerValidCustom(chs, args) ==
    IF args = <<>> \/ ~exists_server_name(Upper(args)) THEN "server_name_a1_o15"
    ELSE IF exists_channel(chs, args) THEN "already_watched"
    ELSE ""

\* AddServerCommand: valid_custom and execute_cmd; create_channel adds the channel
AddServerCommand(args) ==
    /\ UNCHANGED <<cfgvars, runvars, taskvars, op, stop_pending, hist, match>>
    /\ IF AddServerValidCustom(channels, args) # ""
       THEN /\ ev' = CmdEvU("/add server", AddServerValidCustom(channels, args),
                            "/add server")
            /\ UNCHANGED channels
       ELSE /\ channels' = Append(channels, Upper(args))
            /\ ev' = CmdEvU("/add server", "server_added", "")

\* DelServerCommand.valid_custom: the message it returns, "" for None
DelServerValidCustom(chs, args) ==
    IF args = <<>> \/ Len(args) # 2 \/ ~exists_server_name(Upper(args))
    THEN "server_name_a1_o15"
    ELSE IF ~exists_channel(chs, args) THEN "not_watched"
    ELSE ""

\* DelServerCommand: valid_custom and execute_cmd. delete_channel is handed what
\* exists_channel returned, a bool: the client library either raises on it or
\* deletes the channel
DelServerCommand(args) ==
    /\ UNCHANGED <<cfgvars, runvars, taskvars, op, stop_pending, hist, match>>
    /\ IF DelServerValidCustom(channels, args) # ""
       THEN /\ ev' = CmdEvU("/del server", DelServerValidCustom(channels, args),
                            "/del server")
            /\ UNCHANGED channels
       ELSE \E ok \in BOOLEAN :
              IF ok
              THEN LET i == CHOOSE i \in 1..Len(channels) :
                               /\ Upper(channels[i]) = Upper(args)
                               /\ \A j \in 1..(i - 1) : Upper(channels[j]) # Upper(args)
                   IN /\ channels' = SubSeq(channels, 1, i - 1)
                                       \o SubSeq(channels, i + 1, Len(channels))
                      /\ ev' = CmdEvU("/del server", "server_deleted", "")
              ELSE /\ ev' = CmdEvU("/del server", "raised", "")
                   /\ UNCHANGED channels

\* StatusCommand.execute_cmd
StatusCommand ==
    /\ CallListEnemy
    /\ ev' = CmdEvU("/status", "status", "")
    /\ UNCHANGED <<runvars, channels, taskvars, stop_pending, hist, match>>

\* the range test of SetWatchWorldCommand.valid_custom
WorldOutOfRangeNever(int_val) == FALSE
WorldOutOfRange(int_val) == int_val < 1 \/ 4 < int_val

\* SetWatchWorldCommand.valid_custom: TRUE when it returns its message
SetWatchWorldValidCustom(args) ==
    IF args = <<>> \/ ~IsDecimal(args) THEN TRUE ELSE WorldOutOfRange(IntOf(args))

\* SetWatchWorldCommand: valid_custom and execute_cmd
SetWatchWorldCommand(args) ==
    /\ UNCHANGED <<runvars, channels, taskvars, stop_pending, hist, match>>
    /\ IF SetWatchWorldValidCustom(args)
       THEN /\ ev' = CmdEvU("/set world", "world_1_to_4", "/set world")
            /\ UNCHANGED <<cfgvars, op>>
       ELSE /\ CallSetWatchWorld(IntOf(args))
            /\ ev' = CmdEvU("/set world",
                            IF write_raises(enemy_list) THEN "raised" ELSE "world_set",
                            "")

\* FuckYeahCommand.execute_cmd: two messages
FuckYeahCommand(args) ==
    /\ ev' = CmdEvT("/fuck", "yeah_link", "", <<>>, 2)
    /\ UNCHANGED <<cfgvars, runvars, channels, taskvars, op, stop_pending, hist, match>>

\* HelpCommand.execute_cmd: one message with the usage of every command
HelpCommand ==
    /\ ev' = CmdEvU("/?", "help_all", "")
    /\ UNCHANGED <<cfgvars, runvars, channels, taskvars, op, stop_pending, hist, match>>

-----------------------------------------------------------------------------
(* Dispatch: CommandManager.execute and Command.execute *)

Tok ==
    [ start |-> <<"/", "s", "t", "a", "r", "t">>,
      stop |-> <<"/", "s", "t", "o", "p">>,
      add_enemy |-> <<"/", "a", "d", "d", " ", "e", "n", "e", "m", "y">>,
      del_enemy |-> <<"/", "d", "e", "l", " ", "e", "n", "e", "m", "y">>,
      list_enemy |-> <<"/", "l", "i", "s", "t", " ", "e", "n", "e", "m", "y">>,
      add_bl |-> <<"/", "a", "d", "d", " ", "b", "l">>,
      del_bl |-> <<"/", "d", "e", "l", " ", "b", "l">>,
      list_bl |-> <<"/", "l", "i", "s", "t", " ", "b", "l">>,
      add_server |-> <<"/", "a", "d", "d", " ", "s", "e", "r", "v", "e", "r">>,
      del_server |-> <<"/", "d", "e", "l", " ", "s", "e", "r", "v", "e", "r">>,
      status |-> <<"/", "s", "t", "a", "t", "u", "s">>,
      set_world |-> <<"/", "s", "e", "t", " ", "w", "o", "r", "l", "d">>,
      set_interval |-> <<"/", "s", "e", "t", " ", "i", "n", "t", "e", "r",
                         "v", "a", "l">>,
      set_player_count |-> <<"/", "s", "e", "t", " ", "p", "l", "a", "y", "e",
                             "r", "_", "c", "o", "u", "n", "t">>,
      fuck |-> <<"/", "f", "u", "c", "k">>,
      help |-> <<"/", "?">> ]

\* CommandManager.__init__: the commands in the order of __cmd_list
CmdList ==
    << [name |-> "/start", cmd |-> Tok.start, has_args |-> FALSE],
       [name |-> "/stop", cmd |-> Tok.stop, has_args |-> FALSE],
       [name |-> "/add enemy", cmd |-> Tok.add_enemy, has_args |-> TRUE],
       [name |-> "/del enemy", cmd |-> Tok.del_enemy, has_args |-> TRUE],
       [name |-> "/list enemy", cmd |-> Tok.list_enemy, has_args |-> FALSE],
       [name |-> "/add bl", cmd |-> Tok.add_bl, has_args |-> TRUE],
       [name |-> "/del bl", cmd |-> Tok.del_bl, has_args |-> TRUE],
       [name |-> "/list bl", cmd |-> Tok.list_bl, has_args |-> FALSE],
       [name |-> "/add server", cmd |-> Tok.add_server, has_args |-> TRUE],
       [name |-> "/del server", cmd |-> Tok.del_server, has_args |-> TRUE],
       [name |-> "/status", cmd |-> Tok.status, has_args |-> FALSE],
       [name |-> "/set world", cmd |-> Tok.set_world, has_args |-> TRUE],
       [name |-> "/set interval", cmd |-> Tok.set_interval, has_args |-> TRUE],
       [name |-> "/set player_count", cmd |-> Tok.set_player_count, has_args |-> TRUE],
       [name |-> "/fuck", cmd |-> Tok.fuck, has_args |-> TRUE],
       [name |-> "/?", cmd |-> Tok.help, has_args |-> FALSE] >>

\* the chat lines: message.content as CommandManager.execute receives it
Line ==
    [ hello |-> <<"h", "e", "l", "l", "o">>,
      unknown |-> <<"/", "x", "y", "z">>,
      start |-> <<"/", "s", "t", "a", "r", "t">>,
      stop |-> <<"/", "s", "t", "o", "p">>,
      list_enemy |-> <<"/", "l", "i", "s", "t", " ", "e", "n", "e", "m", "y">>,
      list_bl |-> <<"/", "l", "i", "s", "t", " ", "b", "l">>,
      status |-> <<"/", "s", "t", "a", "t", "u", "s">>,
      help |-> <<"/", "?">>,
      start_x |-> <<"/", "s", "t", "a", "r", "t", " ", "x">>,
      stop_blank |-> <<"/", "s", "t", "o", "p", " ">>,
      add_enemy_bare |-> <<"/", "a", "d", "d", " ", "e", "n", "e", "m", "y">>,
      set_world_blank |-> <<"/", "s", "e", "t", " ", "w", "o", "r", "l", "d",
                            " ">>,
      del_serverA1 |-> <<"/", "d", "e", "l", " ", "s", "e", "r", "v", "e",
                         "r", "A", "1">>,
      add_enemy_X |-> <<"/", "a", "d", "d", " ", "e", "n", "e", "m", "y", " ",
                        "X">>,
      del_enemy_Zed |-> <<"/", "d", "e", "l", " ", "e", "n", "e", "m", "y",
                          " ", "Z", "e", "d">>,
      del_bl_Zed |-> <<"/", "d", "e", "l", " ", "b", "l", " ", "Z", "e", "d">>,
      add_server_a1 |-> <<"/", "a", "d", "d", " ", "s", "e", "r", "v", "e",
                          "r", " ", "a", "1">>,
      add_server_z9 |-> <<"/", "a", "d", "d", " ", "s", "e", "r", "v", "e",
                          "r", " ", "z", "9">>,
      del_server_a1 |-> <<"/", "d", "e", "l", " ", "s", "e", "r", "v", "e",
                          "r", " ", "a", "1">>,
      del_server_b2 |-> <<"/", "d", "e", "l", " ", "s", "e", "r", "v", "e",
                          "r", " ", "b", "2">>,
      set_world_4 |-> <<"/", "s", "e", "t", " ", "w", "o", "r", "l", "d", " ",
                        "4">>,
      set_world_1 |-> <<"/", "s", "e", "t", " ", "w", "o", "r", "l", "d", " ",
                        "1">>,
      set_world_5 |-> <<"/", "s", "e", "t", " ", "w", "o", "r", "l", "d", " ",
                        "5">>,
      set_world_0 |-> <<"/", "s", "e", "t", " ", "w", "o", "r", "l", "d", " ",
                        "0">>,
      set_world_x |-> <<"/", "s", "e", "t", " ", "w", "o", "r", "l", "d", " ",
                        "x">>,
      set_world_m1 |-> <<"/", "s", "e", "t", " ", "w", "o", "r", "l", "d",
                         " ", "-", "1">>,
      set_interval_30 |-> <<"/", "s", "e", "t", " ", "i", "n", "t", "e", "r",
                            "v", "a", "l", " ", "3", "0">>,
      set_interval_x |-> <<"/", "s", "e", "t", " ", "i", "n", "t", "e", "r",
                           "v", "a", "l", " ", "x">>,
      set_player_count_3 |-> <<"/", "s", "e", "t", " ", "p", "l", "a", "y",
                               "e", "r", "_", "c", "o", "u", "n", "t", " ",
                               "3">>,
      set_player_count_x |-> <<"/", "s", "e", "t", " ", "p", "l", "a", "y",
                               "e", "r", "_", "c", "o", "u", "n", "t", " ",
                               "x">>,
      fuck_you |-> <<"/", "f", "u", "c", "k", " ", "y", "o", "u">>,
      add_enemy_quoted |-> <<"/", "a", "d", "d", " ", "e", "n", "e", "m", "y",
                             " ", "\"", "p", "l", "a", "y", "e", "r", " ",
                             "n", "a", "m", "e", "\"", " ", "\"", "c", "o",
                             "m", "p", "a", "n", "y", " ", "n", "a", "m", "e",
                             "\"">>,
      add_enemy_quoted_wide |-> <<"/", "a", "d", "d", " ", "e", "n", "e", "m",
                                  "y", " ", "\"", "p", "l", "a", "y", "e",
                                  "r", " ", "n", "a", "m", "e", "\"", " ",
                                  " ", "\"", "c", "o", "m", "p", "a", "n",
                                  "y", " ", "n", "a", "m", "e", "\"">>,
      add_enemy_blank |-> <<"/", "a", "d", "d", " ", "e", "n", "e", "m", "y",
                            " ", " ">>,
      add_bl_blank |-> <<"/", "a", "d", "d", " ", "b", "l", " ", " ">>,
      add_enemy_dq |-> <<"/", "a", "d", "d", " ", "e", "n", "e", "m", "y",
                         " ", "\"", "\"">>,
      add_enemy_pct |-> <<"/", "a", "d", "d", " ", "e", "n", "e", "m", "y",
                          " ", "1", "0", "0", "%">>,
      del_enemy_player_name |-> <<"/", "d", "e", "l", " ", "e", "n", "e", "m",
                                  "y", " ", "p", "l", "a", "y", "e", "r", " ",
                                  "n", "a", "m", "e">> ]

\* str.startswith
StartsWith(s, prefix) == Len(prefix) <= Len(s) /\ SubSeq(s, 1, Len(prefix)) = prefix

\* Command.is_call
is_call(c, msg) == StartsWith(msg, c.cmd)

\* Command.is_cmd_help
is_cmd_help_never(c, msg) == FALSE
is_cmd_help(c, msg) == c.cmd \o <<" ", "/", "?">> = msg

\* Command.is_valid
is_valid_always(c, content) == TRUE
is_valid(c, content) ==
    IF c.has_args
    THEN StartsWith(content, c.cmd \o <<" ">>) /\ Len(c.cmd) + 1 < Len(content)
    ELSE content = c.cmd

\* the args of Command.execute: content[len(cmd) + 1:]
ArgsOf(c, content) == SubSeq(content, Len(c.cmd) + 2, Len(content))

\* CommandManager.execute returns at once: the message is no command
NotACommand ==
    /\ ev' = CmdEvU("dispatch", "none", "")
    /\ UNCHANGED <<cfgvars, runvars, channels, taskvars, op, stop_pending, hist, match>>

\* CommandManager.execute: no command of the list is called
NoneCalled(content) == \A i \in 1..Len(CmdList) : ~is_call(CmdList[i], content)

\* CommandManager.execute: no command is called, the help usage is sent
UnknownCommand ==
    /\ ev' = CmdEvU("dispatch", "invalid_command", "/?")
    /\ UNCHANGED <<cfgvars, runvars, channels, taskvars, op, stop_pending, hist, match>>

\* CommandManager.execute: call_cmd is the first command of the list that is called
CallCmd(content) ==
    CmdList[CHOOSE i \in 1..Len(CmdList) :
                /\ is_call(CmdList[i], content)
                /\ \A j \in 1..(i - 1) : ~is_call(CmdList[j], content)]

\* Command.execute: the help of the command is asked for, its usage is sent
CmdHelp(c) ==
    /\ ev' = CmdEvU(c.name, "help", c.name)
    /\ UNCHANGED <<cfgvars, runvars, channels, taskvars, op, stop_pending, hist, match>>

\* Command.execute: is_valid fails, its message and the usage are sent
CmdInvalid(c) ==
    /\ ev' = CmdEvU(c.name, "invalid_command", c.name)
    /\ UNCHANGED <<cfgvars, runvars, channels, taskvars, op, stop_pending, hist, match>>

\* valid_custom and execute_cmd of the command name
ExecuteCmd(name, args) ==
    CASE name = "/start" -> StartCommand
      [] name = "/stop" -> StopCommand
      [] name \in {"/add enemy", "/add bl"} -> AddEnemyCommand(name, args)
      [] name \in {"/del enemy", "/del bl"} -> DelEnemyCommand(name, args)
      [] name \in {"/list enemy", "/list bl"} -> ListEnemyCommand(name)
      [] name = "/add server" -> AddServerCommand(args)
      [] name = "/del server" -> DelServerCommand(args)
      [] name = "/status" -> StatusCommand
      [] name = "/set world" -> SetWatchWorldCommand(args)
      [] name = "/set interval" -> SetWatchIntervalCommand(args)
      [] name = "/set player_count" -> SetPlayerSbnCountCommand(args)
      [] name = "/fuck" -> FuckYeahCommand(args)
      [] name = "/?" -> HelpCommand

\* Command.execute of the command c on a message with the text content
Execute(c, content) ==
    IF is_cmd_help(c, content) THEN CmdHelp(c)
    ELSE IF ~is_valid(c, content) THEN CmdInvalid(c)
    ELSE ExecuteCmd(c.name, ArgsOf(c, content))

\* CommandManager.execute on a message with the text content
Dispatch(content) ==
    IF ~StartsWith(content, <<"/">>) THEN NotACommand
    ELSE IF NoneCalled(content) THEN UnknownCommand
    ELSE Execute(CallCmd(content), content)

-----------------------------------------------------------------------------
(* Specifications *)

C_bot == <<"b", "o", "t">>
C_a1 == <<"a", "1">>
C_b2 == <<"b", "2">>

\* ASWDConfig.__init__: the config is read from the file as it is, nothing is floored;
\* on and chain say which histories are kept
InitFull(ww, wi, psc, el, chs, on, chain) ==
    /\ watch_world = ww
    /\ watch_interval = wi
    /\ player_sbn_count = psc
    /\ enemy_list = el
    /\ file = write(ww, wi, psc, el)
    /\ is_watch_started = FALSE
    /\ last_servers_info = EmptyMap
    /\ enemy_notice_server_names = <<>>
    /\ channels = chs
    /\ pc = [t \in Tasks |-> "idle"]
    /\ loc = [t \in Tasks |-> LocIdle]
    /\ ev = EvNone
    /\ op = OpNone
    /\ stop_pending = FALSE
    /\ hist = [on |-> on, chain |-> chain, w |-> [t \in Tasks |-> <<>>]]
    /\ match = MatchNone

InitWith(ww, wi, psc, el, chs, on) == InitFull(ww, wi, psc, el, chs, on, TRUE)

TaskStep(t, in) ==
    ResumeStart(t, in) \/ ResumeSleep(t, in) \/ ResumePlSleep(t, in) \/ ResumeSend(t)

TheEnemies == <<[name |-> Text.Bcd, company |-> Text.Acme]>>

\* the bot watching one server: /start and /stop in any order against the loop
Init == InitWith(1, 30, 3, TheEnemies, <<C_bot, C_a1>>, FALSE)

Next ==
    \/ StartCommand
    \/ StopCommand
    \/ \E t \in Tasks : TaskStep(t, InCtl)

Spec == Init /\ [][Next]_vars

\* the same, with the completed cycles of a run recorded
InitEdge == InitWith(1, 30, 3, TheEnemies, <<C_bot, C_a1>>, TRUE)

SpecEdge == InitEdge /\ [][Next]_vars

\* player counts and the surge threshold vary
InitSurge ==
    \E psc \in {0, 3}, chs \in {<<C_bot, C_a1>>, <<C_bot, C_a1, C_b2>>} :
        InitWith(1, 30, psc, TheEnemies, chs, FALSE)

\* one run at a time: /start comes when no earlier /start task is left
NextSurge ==
    \/ (is_watch_started \/ Active(pc) = {}) /\ StartCommand
    \/ StopCommand
    \/ \E a \in {<<"1">>, <<"x">>} : SetPlayerSbnCountCommand(a)
    \/ \E t \in Tasks : TaskStep(t, InSurge)

SpecSurge == InitSurge /\ [][NextSurge]_vars

\* the same under the scheduling of the event loop: an awaited send or sleep ends
FairSpec == Spec /\ \A t \in Tasks : WF_vars(TaskStep(t, InCtl))

\* the config store, called directly and through the two /set commands
InitStore ==
    \E psc \in {0, 3} : InitWith(1, 30, psc, <<>>, <<C_bot>>, FALSE)

NextStore ==
    \/ StoreSetWatchWorld(2)
    \/ StoreSetWatchInterval(5)
    \/ \E v \in {1, 4} : StoreSetPlayerSbnCount(v)
    \/ \E name \in {Text.X, Text.Bcd}, company \in {<<>>, Text.Y_padded} :
         StoreAddEnemy(name, company)
    \/ \E name \in {Text.X, Text.Bcd} : StoreDelEnemy(name)
    \/ StoreListEnemy
    \/ \E a \in {<<"5">>, <<"4", "5">>, <<"x">>} : SetWatchIntervalCommand(a)
    \/ \E a \in {<<"1">>, <<"x">>} : SetPlayerSbnCountCommand(a)

SpecStore == InitStore /\ [][NextStore]_vars

\* 365-374 run on a fetched player list
MatchStep(players) ==
    /\ match' = [el |-> enemy_list, players |-> players,
                 out |-> EnemyPlayers(enemy_list, 1, players)]
    /\ ev' = CmdEv("match", "none")
    /\ UNCHANGED <<cfgvars, runvars, channels, taskvars, op, stop_pending, hist>>

MatchNames == {Text.abcde, Text.xBCD, Text.zed, Text.empty}

\* the matcher on watch lists built with add_enemy and del_enemy
InitMatch == InitWith(1, 30, 3, <<>>, <<C_bot>>, FALSE)

NextMatch ==
    \/ \E name \in {Text.Bcd, Text.empty} : StoreAddEnemy(name, Text.Acme)
    \/ \E name \in {Text.Bcd, Text.empty} : StoreDelEnemy(name)
    \/ \E p \in MatchNames : MatchStep(<<p>>)
    \/ \E p \in MatchNames, q \in MatchNames : MatchStep(<<p, q>>)

SpecMatch == InitMatch /\ [][NextMatch]_vars

\* the cluster fetch fails in every cycle
InDown ==
    [cl_bad |-> {"fail"},
     counts |-> (N_A1 :> {}) @@ (N_B2 :> {}),
     pl_bad |-> (N_A1 :> {}) @@ (N_B2 :> {}),
     lists |-> (N_A1 :> {}) @@ (N_B2 :> {})]

\* the steps a watch loop takes when the cluster fetch fails
DownStep(t) == ResumeStart(t, InDown) \/ ResumeSleep(t, InDown) \/ ResumeSend(t)

\* token + " /?" for every command of the list
HelpLines == {CmdList[i].cmd \o <<" ", "/", "?">> : i \in 1..Len(CmdList)}

\* chat lines: every command well-formed, ill-formed and refused by its validation
CmdLines ==
    {Line.hello, Line.unknown, Line.start, Line.stop, Line.list_enemy, Line.list_bl, Line.status, Line.help,
     Tok.help \o <<" ", "/", "?">>,
     Line.start_x, Line.stop_blank, Line.add_enemy_bare, Line.set_world_blank, Line.del_serverA1,
     Line.add_enemy_X, Line.del_enemy_Zed, Line.del_bl_Zed,
     Line.add_server_a1, Line.add_server_z9, Line.del_server_a1, Line.del_server_b2,
     Line.set_world_1, Line.set_world_5, Line.set_world_x,
     Line.set_interval_30, Line.set_interval_x, Line.set_player_count_3, Line.set_player_count_x,
     Line.fuck_you}

\* CommandManager.execute on a chat line, one watch run at a time: /start comes
\* when no earlier /start task is left
DispatchLine(content) ==
    /\ content = Line.start => (is_watch_started \/ Active(pc) = {})
    /\ Dispatch(content)

\* the bot taking chat lines while its watch loop finds the game API down
InitCmd == InitFull(1, 30, 3, <<>>, <<C_bot>>, FALSE, FALSE)

NextCmd ==
    \/ \E content \in CmdLines : DispatchLine(content)
    \/ \E t \in Tasks : DownStep(t)

SpecCmd == InitCmd /\ [][NextCmd]_vars

\* the help line of every command, and lines that change what the bot holds
HelpAndOtherLines == HelpLines \cup {Line.start, Line.stop, Line.add_enemy_X, Line.add_server_a1}

\* the bot asked for help while it watches
NextHelp ==
    \/ \E content \in HelpAndOtherLines : DispatchLine(content)
    \/ \E t \in Tasks : DownStep(t)

SpecHelp == InitCmd /\ [][NextHelp]_vars

\* chat lines about the watched world, and some that leave it alone
WorldLines ==
    {Line.set_world_1, Line.set_world_4, Line.set_world_5, Line.set_world_0, Line.set_world_x,
     Line.set_world_m1, Line.set_world_blank, Tok.set_world \o <<" ", "/", "?">>,
     Line.set_interval_30, Line.add_enemy_X, Line.add_enemy_pct, Line.status}

\* the watched world set from the chat, on a config loaded with any of the worlds
InitWorld == \E ww \in 1..4 : InitFull(ww, 30, 3, <<>>, <<C_bot>>, FALSE, FALSE)

NextWorld == \E content \in WorldLines : Dispatch(content)

SpecWorld == InitWorld /\ [][NextWorld]_vars

\* chat lines about the enemy list
EnemyLines ==
    {Line.add_enemy_quoted, Line.add_enemy_quoted_wide, Line.add_enemy_blank, Line.add_bl_blank,
     Line.add_enemy_dq, Line.add_enemy_pct, Line.del_enemy_player_name,
     Line.del_enemy_Zed, Line.del_bl_Zed, Line.list_enemy}

\* the enemy list changed from the chat and by direct calls on the store
InitEnemy == InitFull(1, 30, 3, <<>>, <<C_bot>>, FALSE, FALSE)

NextEnemy ==
    \/ \E content \in EnemyLines : Dispatch(content)
    \/ StoreAddEnemy(Text.player_name, Text.Y)
    \/ \E name \in {Text.player_name, Text.Zed} : StoreDelEnemy(name)

SpecEnemy == InitEnemy /\ [][NextEnemy]_vars

\* two guilds with a channel for the same server, a third channel for another
\* server; the cluster list may miss a server, enemies come and go
InGuilds ==
    [cl_bad |-> {},
     counts |-> (N_A1 :> {-1, 2}) @@ (N_B2 :> {-1, 2}),
     pl_bad |-> (N_A1 :> {"fail"}) @@ (N_B2 :> {}),
     lists |-> (N_A1 :> {<<>>, <<Text.abcde>>}) @@ (N_B2 :> {<<Text.zed>>})]

InitGuilds == InitWith(1, 30, 3, TheEnemies, <<C_a1, C_a1, C_b2>>, TRUE)

\* one run at a time
NextGuilds ==
    \/ (is_watch_started \/ Active(pc) = {}) /\ StartCommand
    \/ StopCommand
    \/ \E t \in Tasks : TaskStep(t, InGuilds)

SpecGuilds == InitGuilds /\ [][NextGuilds]_vars

\* the watched world set from the chat while the loop runs, one run at a time
NextRoam ==
    \/ (is_watch_started \/ Active(pc) = {}) /\ StartCommand
    \/ StopCommand
    \/ \E a \in {<<"1">>, <<"2">>} : SetWatchWorldCommand(a)
    \/ \E t \in Tasks : TaskStep(t, InSurge)

SpecRoam == Init /\ [][NextRoam]_vars

-----------------------------------------------------------------------------
(* Intrusion notices *)

\* the three last completed cycles of a task saw 0, 2 and 0 enemies on the server
EdgeWindow(w) == Len(w) = 3 /\ w[1].e = 0 /\ w[2].e = 2 /\ w[3].e = 0

\* what the claim says of every completed cycle: an alert only with enemies on a
\* server outside the notice set, an all-clear only with none on a server inside
EdgeRule(w) ==
    \A i \in 1..Len(w) :
        /\ w[i].a > 0 => (w[i].e > 0 /\ ~w[i].pre)
        /\ w[i].c > 0 => (w[i].e = 0 /\ w[i].pre)

\* C1 as written: over the completed cycles of a run, an intrusion alert goes out
\* only in a cycle with enemies on a server that was not in the notice set, an
\* all-clear only in a cycle without enemies on a server that was, so three
\* consecutive cycles that see 0, 2 and 0 enemies send exactly one alert and
\* exactly one all-clear
C1_EdgeTriggered ==
    \A t \in Tasks :
        LET w == hist.w[t]
        IN /\ EdgeRule(w)
           /\ EdgeWindow(w) => /\ w[1].a + w[2].a + w[3].a = 1
                               /\ w[1].c + w[2].c + w[3].c = 1

\* C1 amended: the same, for three consecutive cycles the first of which starts
\* with the server outside the notice set: the one alert goes out in the second
\* cycle and the one all-clear in the third
C1_EdgeTriggeredFresh ==
    \A t \in Tasks :
        LET w == hist.w[t]
        IN /\ EdgeRule(w)
           /\ (EdgeWindow(w) /\ ~w[1].pre) =>
                /\ <<w[1].a, w[2].a, w[3].a>> = <<0, 1, 0>>
                /\ <<w[1].c, w[2].c, w[3].c>> = <<0, 0, 1>>

\* three cycles 0, 2, 0 from a clean notice set were completed, with their notices
C1_Witness ==
    \E t \in Tasks :
        /\ EdgeWindow(hist.w[t])
        /\ ~hist.w[t][1].pre
        /\ hist.w[t][2].a = 1
        /\ hist.w[t][3].c = 1
        /\ enemy_notice_server_names = <<>>

-----------------------------------------------------------------------------
(* Start and stop *)

\* C2: once /stop has run on a RUNNING watch, and until a /start command comes, no
\* watch loop begins a cycle (no cluster fetch), and every loop exits, with the
\* watch state STOPPED
C2_CooperativeStop ==
    /\ [](stop_pending => ~ev.fetch)
    /\ stop_pending ~> (~stop_pending \/ (Active(pc) = {} /\ ~is_watch_started))

\* the awaits inside the while loop of StartCommand.execute_cmd
LoopPcs == SendPcs \cup {"sleep", "retry_sleep", "pl_sleep"}

\* C3: however /start and /stop interleave with the awaits of the loop, at most
\* one task is inside the watch loop, and the last snapshot and the notice set
\* are written by no task while another one is inside the loop
C3_SingleWatchTask ==
    /\ [](Cardinality({t \in Tasks : pc[t] \in LoopPcs}) <= 1)
    /\ [][(\/ last_servers_info' # last_servers_info
           \/ enemy_notice_server_names' # enemy_notice_server_names) =>
             /\ ev'.who = "loop"
             /\ \A u \in Tasks \ {ev'.task} : pc[u] \notin LoopPcs]_vars

\* C4: a /start that finds the watch RUNNING answers that the watch continues and
\* changes nothing: no task is created and the flag, the last snapshot and the
\* notice set stay as they are
C4_StartWhileRunning ==
    [][(is_watch_started /\ ev'.who = "/start") =>
          /\ ev'.msg = "watch_continuing"
          /\ pc' = pc
          /\ loc' = loc
          /\ is_watch_started'
          /\ last_servers_info' = last_servers_info
          /\ enemy_notice_server_names' = enemy_notice_server_names]_vars

\* a /start was refused while a loop was in its cycle, holding a snapshot and a notice
C4_Witness ==
    /\ ev.who = "/start"
    /\ ev.msg = "watch_continuing"
    /\ is_watch_started
    /\ \E t \in Tasks : pc[t] \in LoopPcs
    /\ last_servers_info # EmptyMap
    /\ enemy_notice_server_names # <<>>

-----------------------------------------------------------------------------
(* Player surge *)

\* the snapshot in force when task t takes its step: 296 empties it first
LastSeenBy(t) == IF pc[t] = "start_send" THEN EmptyMap ELSE last_servers_info

\* the notice set in force when task t takes its step: 297 empties it first
NoticeSeenBy(t) == IF pc[t] = "start_send" THEN <<>> ELSE enemy_notice_server_names

\* C5: every snapshot entry a cycle builds holds, as its surge, the player count
\* minus the prior count when the prior snapshot has a positive count for the
\* server, and -1 when it has none
C5_SurgeSentinel ==
    [][\A t \in Tasks :
         \A s \in (DOMAIN loc'[t].info) \ (DOMAIN loc[t].info) :
            loc'[t].info[s].player_sbn_count =
               PlayerSbnCountSentinel(LastSeenBy(t), s, loc'[t].info[s].player_count)]_vars

\* the prior snapshot has a positive player count for the server, and the count
\* seen now is at least the threshold above it
SurgeDue(last, info, name) ==
    /\ name \in DOMAIN last
    /\ last[name].player_count > 0
    /\ info[name].player_count - last[name].player_count >= player_sbn_count

\* C6: a surge alert is sent exactly when a valid prior count exists and the
\* count rose by at least the threshold: it is never sent without one, whatever
\* the threshold, and it follows the status message whenever the rise is there
C6_SurgeAlert ==
    /\ [](ev.who = "loop" /\ ev.msg = "surge" =>
             SurgeDue(last_servers_info, loc[ev.task].info, Upper(channels[ev.ch])))
    /\ [][\A t \in Tasks :
            (/\ pc[t] = "n_status"
             /\ ev'.who = "loop" /\ ev'.task = t /\ ev'.msg # "error_continuing"
             /\ SurgeDue(last_servers_info, loc[t].info,
                         Upper(channels[Head(loc[t].chans)])))
            => ev'.msg = "surge"]_vars

\* C29: a surge computed as a difference compares two player counts of the same
\* numeric server id: the entry of the last snapshot it starts from was fetched
\* for the world watched now, also after /set world has run in between
C29_SurgeSameServer ==
    [][\A t \in Tasks :
         \A s \in (DOMAIN loc'[t].info) \ (DOMAIN loc[t].info) :
            (s \in DOMAIN LastSeenBy(t) /\ 0 < LastSeenBy(t)[s].player_count) =>
               /\ loc'[t].info[s].player_sbn_count =
                     loc'[t].info[s].player_count - LastSeenBy(t)[s].player_count
               /\ loc'[t].info[s].server_id = LastSeenBy(t)[s].server_id]_vars

-----------------------------------------------------------------------------
(* Enemy matching *)

\* sub occurs in s
IsInfix(sub, s) ==
    \E i \in 0..(Len(s) - Len(sub)) : SubSeq(s, i + 1, i + Len(sub)) = sub

\* the entries and players that match: the entry is, letter case apart, inside the name
MatchPairs(el, players) ==
    {p \in (1..Len(el)) \X (1..Len(players)) :
        IsInfix(Upper(el[p[1]].name), Upper(players[p[2]]))}

Range(f) == {f[i] : i \in DOMAIN f}

S_abcde_Bcd == <<"a", "b", "c", "d", "e", "(", "B", "c", "d", ")">>
S_abcde_Acme == <<"a", "b", "c", "d", "e", "(", "A", "c", "m", "e", ")">>

\* C7 as written: an entry matches a player when it is a case-insensitive substring
\* of the player's name, and the match string is the name followed by the entry in
\* parentheses: with Bcd (company Acme) on the list, player abcde gives abcde(Bcd)
C7_MatchString ==
    /\ Range(match.out) =
          {Format(match.players[p[2]], match.el[p[1]].name) :
              p \in MatchPairs(match.el, match.players)}
    /\ (match.el = TheEnemies /\ match.players = <<Text.abcde>>) =>
          match.out = <<S_abcde_Bcd>>

\* C7 amended: an entry matches a player with a non-empty name when it is a
\* case-insensitive substring of that name, and the match string is the name
\* followed by the entry's company label in parentheses: abcde(Acme)
C7_MatchCompany ==
    /\ Range(match.out) =
          {Format(match.players[p[2]], match.el[p[1]].company) :
              p \in {q \in MatchPairs(match.el, match.players) :
                        match.players[q[2]] # <<>>}}
    /\ (match.el = TheEnemies /\ match.players = <<Text.abcde>>) =>
          match.out = <<S_abcde_Acme>>

\* Bcd was added with company Acme, and abcde was matched against the list
C7_Witness ==
    /\ op.name = "add_enemy" /\ op.key = Text.Bcd /\ op.company = Text.Acme /\ op.ret
    /\ match.el = TheEnemies
    /\ match.players = <<Text.abcde>>
    /\ match.out = <<S_abcde_Acme>>

\* the matching pairs whose player has a name, which 372 asks for
NamedPairs(el, players) == {p \in MatchPairs(el, players) : players[p[2]] # <<>>}

\* the place of pair p when the pairs are listed entry by entry, and player by
\* player within an entry
PairRank(P, p) ==
    1 + Cardinality({q \in P : q[1] < p[1] \/ (q[1] = p[1] /\ q[2] < p[2])})

\* C25: enemy_players lists one match string for every matching pair of a
\* watch-list entry and a fetched player, entry by entry and within an entry in
\* the order of the fetched players, nothing dropped: a player matched by k
\* entries is listed k times and the length of the list is the number of pairs
C25_MatchOrder ==
    LET P == NamedPairs(match.el, match.players)
    IN /\ Len(match.out) = Cardinality(P)
       /\ \A p \in P :
             match.out[PairRank(P, p)] =
                 Format(match.players[p[2]], match.el[p[1]].company)

\* with the empty entry and Bcd on the list, abcde is matched by both and zed by
\* the empty entry: abcde is listed twice, zed between the two
C25_Witness ==
    /\ Len(match.el) = 2
    /\ match.el[1].name = Text.empty /\ match.el[2].name = Text.Bcd
    /\ match.players = <<Text.abcde, Text.zed>>
    /\ match.out = <<S_abcde_Acme, Format(Text.zed, Text.Acme), S_abcde_Acme>>

-----------------------------------------------------------------------------
(* The config store *)

Max(a, b) == IF a >= b THEN a ELSE b

\* C8: setting the watch interval on the config store stores max(value, 30), so
\* the interval held and persisted after any set is at least 30
C8_IntervalClamp ==
    /\ op.name = "watch_interval" =>
          /\ watch_interval = Max(op.val, 30)
          /\ file.watch_interval = Str(watch_interval)
    /\ op.wi_set => (watch_interval >= 30 /\ IntOf(file.watch_interval) >= 30)

\* C9: setting the surge threshold on the config store stores max(value, 3), so
\* the threshold held and persisted after any set is at least 3
C9_ThresholdClamp ==
    /\ op.name = "player_sbn_count" =>
          /\ player_sbn_count = Max(op.val, 3)
          /\ file.player_sbn_count = Str(player_sbn_count)
    /\ op.psc_set => (player_sbn_count >= 3 /\ IntOf(file.player_sbn_count) >= 3)

\* a threshold of 1 was set on a store loaded with 0, and 3 is held and persisted
C9_Witness ==
    /\ op.name = "player_sbn_count"
    /\ op.val = 1
    /\ player_sbn_count = 3
    /\ file.player_sbn_count = <<"3">>

\* C10: after add_enemy(X, Y) with X not on the list, list_enemy shows "X(Y)"
\* with Y trimmed; a del_enemy(X) that follows succeeds and leaves no entry for
\* X: the list and its rendering are what they were before the add
C10_EnemyRoundTrip ==
    /\ (op.name = "add_enemy" /\ op.ret) =>
          /\ ~HasEnemy(op.before, op.key)
          /\ enemy_list = Append(op.before, [name |-> op.key, company |-> Strip(op.company)])
          /\ IsInfix(Format(op.key, Strip(op.company)), list_enemy(enemy_list))
    /\ (/\ op.name = "del_enemy"
        /\ op.prev.name = "add_enemy" /\ op.prev.ret /\ op.prev.key = op.key) =>
          /\ op.ret
          /\ ~HasEnemy(enemy_list, op.key)
          /\ enemy_list = op.prev.before
          /\ list_enemy(enemy_list) = list_enemy(op.prev.before)

S_X_Y == <<"X", "(", "Y", ")">>

\* X was added with company " Y " to a list holding another entry, shown as X(Y),
\* and deleted again
C10_Witness ==
    /\ op.name = "del_enemy" /\ op.key = Text.X /\ op.ret
    /\ op.prev.name = "add_enemy" /\ op.prev.key = Text.X /\ op.prev.ret
    /\ enemy_list = op.prev.before
    /\ Len(enemy_list) = 1
    /\ IsInfix(S_X_Y, list_enemy(op.before))
    /\ ~IsInfix(S_X_Y, list_enemy(enemy_list))

-----------------------------------------------------------------------------
(* The enemy list from the chat *)

\* the argument string the chat line c hands to its command
LineArgs(c) == ArgsOf(CallCmd(c), c)

\* the player name AddEnemyCommand.execute_cmd takes from the chat line c
LinePlayer(c) ==
    IF split_args(LineArgs(c)) = <<>> THEN <<>> ELSE split_args(LineArgs(c))[1]

DelLines == {Line.del_enemy_Zed, Line.del_bl_Zed, Line.del_enemy_player_name}

AddLines == {Line.add_enemy_quoted, Line.add_enemy_quoted_wide, Line.add_enemy_blank,
             Line.add_bl_blank, Line.add_enemy_dq, Line.add_enemy_pct}

\* C11: del_enemy of a name that is not on the list returns False, leaves the list
\* as it is and writes nothing; /del enemy and /del bl with such a name answer
\* with the "no such enemy" message and the usage, and make no call on the store
C11_DelAbsent ==
    [][/\ \A name \in {Text.player_name, Text.Zed} :
            (~HasEnemy(enemy_list, name) /\ StoreDelEnemy(name)) =>
                /\ ~op'.ret
                /\ op'.wr = "none"
                /\ UNCHANGED cfgvars
       /\ \A c \in DelLines :
            (~HasEnemy(enemy_list, LineArgs(c)) /\ Dispatch(c)) =>
                /\ ev'.msg = "no_such_enemy"
                /\ ev'.usage = ev'.who
                /\ ev'.n = 1
                /\ op' = op
                /\ UNCHANGED cfgvars]_vars

\* del_enemy was refused for Zed, and then /del bl Zed, on a list holding another name
C11_Witness ==
    /\ op.name = "del_enemy" /\ op.key = Text.Zed /\ ~op.ret /\ op.wr = "none"
    /\ ev.who = "/del bl" /\ ev.msg = "no_such_enemy"
    /\ enemy_list # <<>>
    /\ enemy_list = op.before

\* C12: add_enemy with a name that is on the list returns False and changes
\* nothing: the company of the entry, the rest of the list and the file stay, also
\* when the call comes from /add enemy or /add bl
C12_AddExisting ==
    [][/\ (HasEnemy(enemy_list, Text.player_name) /\ StoreAddEnemy(Text.player_name, Text.Y)) =>
            /\ ~op'.ret
            /\ op'.wr = "none"
            /\ UNCHANGED cfgvars
       /\ \A c \in AddLines :
            (HasEnemy(enemy_list, LinePlayer(c)) /\ Dispatch(c)) =>
                /\ op'.name = "add_enemy" /\ op'.key = LinePlayer(c)
                /\ ~op'.ret
                /\ op'.wr = "none"
                /\ UNCHANGED cfgvars]_vars

\* "player name" of "company name" was added again with the company Y, refused,
\* and its entry is as it was
C12_Witness ==
    /\ op.name = "add_enemy" /\ op.key = Text.player_name /\ op.company = Text.Y /\ ~op.ret
    /\ HasEnemy(enemy_list, Text.player_name)
    /\ CompanyOf(enemy_list, Text.player_name) = Text.company_name
    /\ Len(enemy_list) >= 2
    /\ enemy_list = op.before

\* C16: split_args makes of "player name" "company name" exactly the two tokens
\* player name and company name, also when more than one blank separates the two
\* quoted spans, and these are the name and the company that add_enemy is given
C16_QuotedSplit ==
    [][\A c \in {Line.add_enemy_quoted, Line.add_enemy_quoted_wide} :
          Dispatch(c) =>
              /\ ev'.tokens = <<Text.player_name, Text.company_name>>
              /\ op'.name = "add_enemy"
              /\ op'.key = Text.player_name
              /\ op'.company = Text.company_name]_vars

\* C17: no entry of the enemy list has the empty name, whatever /add enemy and
\* /add bl are given, blanks only and "" included
C17_NoEmptyName ==
    \A i \in 1..Len(enemy_list) : enemy_list[i].name # <<>>

\* C18: after every command that completed, the file holds exactly the world, the
\* interval, the threshold and the enemy list held in memory; a call that changed
\* the config wrote it in the same step and a call that failed wrote nothing
C18_Persisted ==
    /\ [](ev.msg # "raised" =>
            file = write(watch_world, watch_interval, player_sbn_count, enemy_list))
    /\ [][/\ <<watch_world, watch_interval, player_sbn_count, enemy_list>>'
                # <<watch_world, watch_interval, player_sbn_count, enemy_list>>
               => op'.wr = "wrote"
          /\ (ev'.who = "store" /\ op'.name \in {"add_enemy", "del_enemy"} /\ ~op'.ret)
               => (op'.wr = "none" /\ file' = file)]_vars

-----------------------------------------------------------------------------
(* Help and validation *)

\* what a command that neither ran its body nor touched anything leaves alone
SharedUnchanged ==
    UNCHANGED <<cfgvars, runvars, channels, taskvars, op>>

\* C13: for every command of the list, the line token + " /?" sends the usage
\* text of that command and nothing else, and has no other effect: no validation
\* message, no body, and the config, the watch state, the last snapshot and the
\* notice set stay as they are
C13_HelpShortCircuit ==
    [][\A i \in 1..Len(CmdList) :
          Dispatch(CmdList[i].cmd \o <<" ", "/", "?">>) =>
              /\ ev'.who = CmdList[i].name
              /\ ev'.msg = "help"
              /\ ev'.usage = CmdList[i].name
              /\ ev'.n = 1
              /\ SharedUnchanged]_vars

\* the help of /start was shown while the watch was running, and it goes on
C13_Witness ==
    /\ ev.who = "/start" /\ ev.msg = "help" /\ ev.usage = "/start" /\ ev.n = 1
    /\ is_watch_started
    /\ \E t \in Tasks : pc[t] \in LoopPcs

\* the chat line c calls a command and is not its help line
Validated(c) ==
    /\ StartsWith(c, <<"/">>)
    /\ ~NoneCalled(c)
    /\ c # CallCmd(c).cmd \o <<" ", "/", "?">>

\* the chat line c is not well-formed: a command without arguments followed by
\* anything, or a command with arguments not followed by a blank and more
IllFormed(c) ==
    IF CallCmd(c).has_args
    THEN ~(/\ Len(c) > Len(CallCmd(c).cmd) + 1
           /\ c[Len(CallCmd(c).cmd) + 1] = " ")
    ELSE Len(c) > Len(CallCmd(c).cmd)

\* the lines of CmdLines that get as far as validation, each with the command
\* that CommandManager.execute hands it to, the name of the command, its argument
\* string and whether it is well-formed
ValidatedLines ==
    {[line |-> c, cmd |-> CallCmd(c), name |-> CallCmd(c).name, args |-> LineArgs(c),
      ill |-> IllFormed(c)] :
         c \in {d \in CmdLines : Validated(d)}}

\* the validation of the command name returns a message on the arguments args
Refused(name, args) ==
    CASE name = "/start" -> StartValidCustom(is_watch_started)
      [] name \in {"/add enemy", "/add bl"} -> AddEnemyValidCustom(args)
      [] name \in {"/del enemy", "/del bl"} -> DelEnemyValidCustom(enemy_list, args) # ""
      [] name = "/add server" -> AddServerValidCustom(channels, args) # ""
      [] name = "/del server" -> DelServerValidCustom(channels, args) # ""
      [] name = "/set world" -> SetWatchWorldValidCustom(args)
      [] name = "/set interval" -> ~IsDecimal(args)
      [] name = "/set player_count" -> args = <<>>
      [] OTHER -> FALSE

\* the names of the messages that give a reason
Reasons ==
    {"invalid_command", "watch_continuing", "bad_player_name", "no_such_enemy",
     "server_name_a1_o15", "already_watched", "not_watched", "world_1_to_4",
     "not_a_number"}

C15_MalformedArgs ==
    [][\A name \in {"/set world", "/set interval", "/set player_count"} :
          ExecuteCmd(name, <<"x">>) =>
              /\ ev'.msg \in Reasons
              /\ ev'.usage = name
              /\ ev'.n = 1
              /\ UNCHANGED cfgvars]_vars

-----------------------------------------------------------------------------
(* The watched world *)

\* the argument is a decimal number from 1 to 4
WorldArg(args) == IsDecimal(args) /\ IntOf(args) \in 1..4

\* C19: from a stored world in 1..4, after any sequence of commands the world held
\* and the world persisted are in 1..4; a /set world whose argument is no decimal
\* number from 1 to 4 is answered with a message and the usage, and the world is
\* unchanged
C19_WorldRange ==
    /\ [](watch_world \in 1..4 /\ IntOf(file.watch_world) \in 1..4)
    /\ [][\A c \in {d \in WorldLines : CallCmd(d).name = "/set world" /\ Validated(d)} :
            (~WorldArg(LineArgs(c)) /\ Dispatch(c)) =>
                /\ ev'.msg \in {"world_1_to_4", "invalid_command"}
                /\ ev'.usage = "/set world"
                /\ ev'.n = 1
                /\ watch_world' = watch_world
                /\ file' = file]_vars

\* world 4 was set and persisted, and a /set world out of the range was refused
C19_Witness ==
    /\ ev.who = "/set world" /\ ev.msg = "world_1_to_4"
    /\ op.name = "watch_world" /\ op.val = 4 /\ op.wr = "wrote"
    /\ watch_world = 4
    /\ file.watch_world = <<"4">>

-----------------------------------------------------------------------------
(* Errors inside a cycle *)

\* C20: a failure inside a cycle never ends the loop: the task goes on to the
\* generic "continuing" message with the watch RUNNING and the last snapshot kept,
\* and a task leaves the loop only when the watch is no longer RUNNING
C20_LoopResilience ==
    [][\A t \in Tasks :
          /\ (pc[t] \in LoopPcs /\ pc'[t] = "idle") => ~is_watch_started'
          /\ (pc[t] \in LoopPcs \ {"exc_send"} /\ pc'[t] = "exc_send") =>
                /\ ev'.msg = "error_continuing"
                /\ is_watch_started' = is_watch_started
                /\ last_servers_info' = last_servers_info]_vars

-----------------------------------------------------------------------------
(* Failed fetches *)

\* the step is one of task t of the watch loop
StepOf(t) == ev'.who = "loop" /\ ev'.task = t

\* the messages of the notification phase
NotifyMsgs == {"status", "surge", "intrusion", "all_clear", "data_error"}

\* C21: when the cluster fetch fails or gives an empty body, the cycle sends an
\* error message to the invoking channel and nothing else, sleeps the interval
\* once and is back at the start of the loop; the last snapshot and the notice
\* set stay as the cycle found them
C21_ClusterFetchFailure ==
    [][\A t \in Tasks : StepOf(t) =>
          /\ (ev'.fetch /\ ev'.msg \in {"fetch_empty", "fetch_failed"}) =>
                /\ pc'[t] \in {"cl_empty_send", "cl_err_send"}
                /\ ev'.ch = 0
                /\ last_servers_info' = LastSeenBy(t)
                /\ enemy_notice_server_names' = NoticeSeenBy(t)
          /\ pc[t] \in {"cl_empty_send", "cl_err_send"} =>
                /\ ~ev'.fetch
                /\ ev'.ch = 0
                /\ ev'.msg \notin NotifyMsgs
                /\ ev'.msg = "none" <=> pc'[t] = "retry_sleep"
                /\ ev'.msg # "none" => pc'[t] \in {"cl_err_send", "exc_send"}
                /\ last_servers_info' = last_servers_info
                /\ enemy_notice_server_names' = enemy_notice_server_names
          /\ pc[t] = "retry_sleep" =>
                IF is_watch_started THEN ev'.fetch ELSE pc'[t] = "idle"]_vars

\* a loop sleeps after a failed cluster fetch, the snapshot and the notice of the
\* cycles before still there
C21_Witness ==
    \E t \in Tasks :
        /\ pc[t] = "retry_sleep"
        /\ ev.who = "loop" /\ ev.task = t /\ ev.msg = "none"
        /\ last_servers_info # EmptyMap
        /\ enemy_notice_server_names # <<>>

\* C22: when the player fetch of a watched server fails or gives an empty body,
\* the cycle reports it and starts over like after a failed cluster fetch: no
\* further server is fetched, no line of the notification phase is sent, the
\* last snapshot is kept, and after the one sleep the next step of the loop is
\* the next cluster fetch
C22_PlayerFetchFailure ==
    [][\A t \in Tasks : StepOf(t) =>
          /\ pc[t] \in {"pl_empty_send", "pl_err_send"} =>
                /\ ev'.msg \notin NotifyMsgs
                /\ last_servers_info' = last_servers_info
                /\ enemy_notice_server_names' = enemy_notice_server_names
          /\ pc[t] = "pl_sleep" =>
                /\ ev'.msg \notin NotifyMsgs
                /\ last_servers_info' = last_servers_info
                /\ IF is_watch_started THEN ev'.fetch ELSE pc'[t] = "idle"]_vars

-----------------------------------------------------------------------------
(* The notification phase *)

\* the awaits of the notification phase
NotifyPcs == {"n_dataerr", "n_status", "n_surge", "n_alert", "n_clear"}

\* C23: in a cycle that reaches the notification phase the reporting channels
\* are served in turn, each once: a channel gets the status line when the
\* snapshot of the cycle has an entry for its server name and the data-error
\* line when it has none; a surge, intrusion or all-clear message goes only to
\* the channel that has just got its status line; the data-error line leaves
\* the notice set as it is; and the cycle is completed after the last channel
C23_PerChannelOutput ==
    [][\A t \in Tasks : StepOf(t) =>
          /\ ev'.msg \in {"status", "data_error"} =>
                /\ loc'[t].chans # <<>>
                /\ ev'.ch = Head(loc'[t].chans)
                /\ loc'[t].chans = IF pc[t] \in NotifyPcs THEN Tail(loc[t].chans)
                                   ELSE get_channels(channels)
                /\ ev'.msg = "status" <=> Upper(channels[ev'.ch]) \in DOMAIN loc'[t].info
          /\ ev'.msg \in {"surge", "intrusion", "all_clear"} =>
                /\ pc[t] \in {"n_status", "n_surge", "n_alert"}
                /\ loc'[t].chans = loc[t].chans
                /\ ev'.ch = Head(loc[t].chans)
          /\ pc[t] = "n_dataerr" =>
                enemy_notice_server_names' = enemy_notice_server_names
          /\ (pc[t] \in NotifyPcs /\ ev'.cyc = "completed") =>
                Len(loc[t].chans) = 1]_vars

\* in one cycle the two channels of a server missing from the cluster list got
\* the data-error line, and the channel of the other server gets its status line
C23_Witness ==
    \E t \in Tasks :
        /\ pc[t] = "n_status"
        /\ ev.who = "loop" /\ ev.task = t /\ ev.msg = "status" /\ ev.ch = 3
        /\ N_A1 \notin DOMAIN loc[t].info

\* the reporting channels named after the tracked server
TrackedChannels ==
    {i \in 1..Len(channels) : Upper(channels[i]) = TrackedServer}

\* C26: in a completed cycle that finds enemies on a server outside the notice
\* set, every reporting channel named after the server gets the intrusion alert,
\* and in one that finds none on a server inside it, every such channel gets the
\* all-clear
C26_AlertAllChannels ==
    \A t \in Tasks : \A i \in 1..Len(hist.w[t]) :
        LET r == hist.w[t][i]
        IN /\ (r.e > 0 /\ ~r.pre) => r.a = Cardinality(TrackedChannels)
           /\ (r.e = 0 /\ r.pre) => r.c = Cardinality(TrackedChannels)

\* C27: whatever commands are interleaved with the awaits of the watch loop, the
\* notice list holds a server name at most once
C27_NoticeIsSet ==
    \A i, k \in 1..Len(enemy_notice_server_names) :
        enemy_notice_server_names[i] = enemy_notice_server_names[k] => i = k

-----------------------------------------------------------------------------
(* The run state at /start *)

\* what task t sends next when the send of its status line returns
AfterStatusOf(t) == SendDone("n_status", loc'[t], last_servers_info',
                             enemy_notice_server_names').msg

\* C24: when a /start task enters the loop, the watch is RUNNING and the last
\* snapshot and the notice set are empty before its first cycle: every entry the
\* first cycle builds has the surge of a server without baseline and no surge
\* alert follows its status line, and a server with enemies gets the intrusion
\* alert after its status line, whatever the run before left in the notice set
C24_StartResets ==
    [][\A t \in Tasks : (StepOf(t) /\ pc[t] = "start_send" /\ pc'[t] # "idle") =>
          /\ is_watch_started'
          /\ enemy_notice_server_names' = <<>>
          /\ ev'.cyc # "completed" => last_servers_info' = EmptyMap
          /\ \A s \in DOMAIN loc'[t].info :
                loc'[t].info[s].player_sbn_count =
                    PlayerSbnCount(EmptyMap, s, loc'[t].info[s].player_count)
          /\ ev'.msg = "status" =>
                /\ AfterStatusOf(t) # "surge"
                /\ Len(loc'[t].info[Upper(channels[ev'.ch])].enemy_players) > 0 =>
                      AfterStatusOf(t) = "intrusion"]_vars

\* the first cycle of a run sends the intrusion alert of a server, the snapshot
\* and the notice set still empty
C24_Witness ==
    \E t \in Tasks :
        /\ pc[t] = "n_alert"
        /\ ev.who = "loop" /\ ev.task = t /\ ev.msg = "intrusion"
        /\ is_watch_started
        /\ last_servers_info = EmptyMap
        /\ enemy_notice_server_names = <<>>

-----------------------------------------------------------------------------
(* The flag and the loop *)

\* C28: whenever the watch is RUNNING, a task of /start is inside the watch loop,
\* in a cycle or asleep, also after an error in a cycle or in its report
C28_FlagHasLoop ==
    is_watch_started => \E t \in Tasks : pc[t] \in LoopPcs

====
